---------------------------- MODULE Spec2Model ----------------------------
(***************************************************************************)
(* Model of webdav-encrypt: the three stream ciphers (aesctr, rc4, mix),   *)
(* the cipher cache of ProxyHandler and the encrypting transport           *)
(* (handleUpload, handleDownload, decryptReader).                          *)
(*                                                                         *)
(* Scaling.  TLC's integers are 32 bits wide and its state space finite,   *)
(* so three sizes of the source are scaled down and named as bounds:       *)
(*   - the 32-bit lanes of the AES counter block are LaneBits wide, and    *)
(*     MAX_UINT32 (0xffffffff in the source) is the all-ones lane value;   *)
(*   - the RC4 S-box has SboxSize entries instead of 256;                  *)
(*   - an RC4 segment is SegLen bytes instead of 1,000,000.                *)
(* The primitives of the standard library (MD5, SHA-256, PBKDF2, the AES   *)
(* block function) are stand-ins: deterministic functions that keep apart  *)
(* what the real ones keep apart.  A byte is a natural number; XOR is the  *)
(* bitwise exclusive or.                                                   *)
(***************************************************************************)
EXTENDS Integers, Sequences, FiniteSets, TLC

\* ------------------------------------------------------------------ bounds

\* Width in bits of one lane of the AES counter block (32 in the source).
LaneBits == 2
\* Entries of the RC4 S-box (256 in the source).
SboxSize == 16
\* Bytes per RC4 segment (1,000,000 in the source).
SegLen == 4
\* Largest position the cipher-level specification seeks or replays to.
MaxSeekPos == 20
\* Longest buffer of free content handed to EncryptData / DecryptData at
\* the cipher level.
MaxBuf == 2
\* Longest single call at the cipher level (longer than a segment).
MaxCall == 6

\* Largest object size, in bytes, that passes through the proxy.
MaxN == 2
\* Requests the proxy serves at the same time.
MaxReqs == 2
\* Requests started in one run of the proxy.
MaxStarts == 3
MaxMixSeed == 40

\* Size of the object of the downloads that upstream answers in full.
WholeN == 3
\* h.chunkSize, the upload buffer size (8192 by default, configurable).
ChunkSize == 2
\* Entries above which the hourly clean-up empties the cache (1000 in the
\* code).
CacheLimit == 1

\* --------------------------------------------------------------- constants

\* The redirect limit of handleDownload's CheckRedirect.
MAX_REDIRECTS == 10

\* The AES block size, the literal 16 of SetPosition.
AES_BLOCK == 16
\* Number of 32-bit lanes of the counter block walked by incrementIV.
IV_LANES == 4
\* Length of the RC4 file key (an MD5 digest) in bytes.
RC4_KEY_LEN == 16
\* Length of the mix tables (a SHA-256 digest) in bytes.
MIX_LEN == 32

LaneMod == 2 ^ LaneBits
MAX_UINT32 == LaneMod - 1
SEGMENT_POSITION == SegLen

Algorithms == {"aesctr", "rc4", "mix"}

\* ----------------------------------------------------------------- helpers

Min(a, b) == IF a < b THEN a ELSE b

\* Go's integer division truncates toward zero; the remainder has the sign
\* of the dividend.
GoDiv(a, b) == IF a >= 0 THEN a \div b ELSE -((-a) \div b)
GoMod(a, b) == a - b * GoDiv(a, b)

RECURSIVE Xor(_, _)
Xor(a, b) ==
    IF a = 0 THEN b
    ELSE IF b = 0 THEN a
    ELSE (((a % 2) + (b % 2)) % 2) + 2 * Xor(a \div 2, b \div 2)

\* A sequence of n zero bytes (a dummy buffer).
Zeros(n) == [k \in 1..n |-> 0]

\* ------------------------------------------------------------------ aesctr

\* bigEndianToUint32 / uint32ToBigEndian: a lane is kept as its value.
\* uint32(x) of an int64 wraps modulo the lane width.
Uint32(x) == x % LaneMod

\* MD5(decimal(N)) : the initial counter block of a file of size N.  The
\* digest is a stand-in; ivSeed lets the initial states range over counter
\* blocks.  Lane 1 is bytes 0-3 (most significant), lane 4 is bytes 12-15.
SourceIVOf(seed, n) ==
    LET v == (seed + n * (LaneMod + 1)) % (LaneMod ^ IV_LANES)
    IN  [l \in 1..IV_LANES |-> (v \div (LaneMod ^ (IV_LANES - l))) % LaneMod]

\* The value of a counter block as a big-endian integer.
CtrVal(iv) ==
    iv[1] * LaneMod ^ 3 + iv[2] * LaneMod ^ 2 + iv[3] * LaneMod + iv[4]

\* The AES block function under the file key MD5(K_out || decimal(N)):
\* byte off of the keystream block of counter block iv.  Distinct
\* (N, counter, offset) give distinct values, never 0.
AESKeystreamByte(n, iv, off) ==
    ((n * (LaneMod ^ IV_LANES) + CtrVal(iv)) * AES_BLOCK + off) + 1

\* crypto/cipher CTR: the counter block is incremented by one as a
\* big-endian integer, wrapping at the top.
CtrInc(iv) ==
    IF iv[4] # LaneMod - 1 THEN [iv EXCEPT ![4] = @ + 1]
    ELSE IF iv[3] # LaneMod - 1 THEN [iv EXCEPT ![4] = 0, ![3] = @ + 1]
    ELSE IF iv[2] # LaneMod - 1 THEN [iv EXCEPT ![4] = 0, ![3] = 0, ![2] = @ + 1]
    ELSE [iv EXCEPT ![4] = 0, ![3] = 0, ![2] = 0, ![1] = (@ + 1) % LaneMod]

RECURSIVE CtrIncN(_, _)
CtrIncN(iv, n) == IF n = 0 THEN iv ELSE CtrIncN(CtrInc(iv), n - 1)

\* One pass of incrementIV's loop for lane idx (0 = bytes 12-15), with the
\* carry of the lanes below.
RECURSIVE IncrementLanes(_, _, _, _, _)
IncrementLanes(iv, idx, overflow, incrementLittle, incrementBig) ==
    IF idx = IV_LANES THEN iv
    ELSE
        LET lane == IV_LANES - idx
            inc == overflow
                   + (IF idx = 0 THEN incrementLittle ELSE 0)
                   + (IF idx = 1 THEN incrementBig ELSE 0)
            num == iv[lane] + inc
            numBig == GoDiv(num, MAX_UINT32)
            numLittle == GoMod(num, MAX_UINT32) - numBig
        IN  IncrementLanes([iv EXCEPT ![lane] = Uint32(numLittle)],
                           idx + 1, numBig, incrementLittle, incrementBig)

incrementIV(iv, increment) ==
    LET incrementBig == GoDiv(increment, MAX_UINT32)
        incrementLittle == GoMod(increment, MAX_UINT32) - incrementBig
    IN  IncrementLanes(iv, 0, 0, incrementLittle, incrementBig)

\* XORKeyStream over data from stream state (ctr, used): the output and
\* the stream state after it.
RECURSIVE XORKeyStream(_, _, _, _, _)
XORKeyStream(n, ctr, used, data, out) ==
    IF Len(out) = Len(data) THEN [ctr |-> ctr, used |-> used, out |-> out]
    ELSE
        LET k == Len(out) + 1
            b == Xor(data[k], AESKeystreamByte(n, ctr, used))
        IN  IF used + 1 = AES_BLOCK
            THEN XORKeyStream(n, CtrInc(ctr), 0, data, Append(out, b))
            ELSE XORKeyStream(n, ctr, used + 1, data, Append(out, b))

\* --------------------------------------------------------------------- rc4

\* uint32ToBigEndian on the four bytes of the segment offset.
Uint32ToBigEndian(n) ==
    [k \in 1..4 |-> (n \div (256 ^ (4 - k))) % 256]

\* hex(MD5(K_out || decimal(N))) decoded: the 16-byte file key (stand-in).
FileKeyOf(n) == [k \in 1..RC4_KEY_LEN |-> (7 * k + 3 * n + 1) % 256]

\* initKSA: the S-box permutation of key, indices 0..SboxSize-1.
RECURSIVE KSALoop(_, _, _, _)
KSALoop(S, key, i, j) ==
    IF i = SboxSize THEN S
    ELSE
        LET j2 == (j + S[i] + key[(i % Len(key)) + 1]) % SboxSize
        IN  KSALoop([S EXCEPT ![i] = S[j2], ![j2] = S[i]], key, i + 1, j2)

initKSA(key) == KSALoop([x \in 0..(SboxSize - 1) |-> x], key, 0, 0)

\* ResetKSA: re-key for the segment that holds position.
ResetKSA(position, n) ==
    LET offset == (position \div SEGMENT_POSITION) * SEGMENT_POSITION
        buf == Uint32ToBigEndian(offset)
        fk == FileKeyOf(n)
        j == RC4_KEY_LEN - 4
        rc4Key == [k \in 1..RC4_KEY_LEN |->
                     IF k > j THEN Xor(fk[k], buf[k - j]) ELSE fk[k]]
    IN  [sbox |-> initKSA(rc4Key), i |-> 0, j |-> 0]

\* prgaExecPosition: plainLen PRGA steps whose output is dropped.
RECURSIVE prgaExecPosition(_, _, _, _)
prgaExecPosition(S, i, j, plainLen) ==
    IF plainLen = 0 THEN [sbox |-> S, i |-> i, j |-> j]
    ELSE
        LET i2 == (i + 1) % SboxSize
            j2 == (j + S[i2]) % SboxSize
        IN  prgaExecPosition([S EXCEPT ![i2] = S[j2], ![j2] = S[i2]],
                             i2, j2, plainLen - 1)

\* prgaExecute's loop over the buffer, k counted from 0.  position is
\* rc.position, which the loop overwrites at a segment boundary.
RECURSIVE prgaLoop(_, _, _, _, _, _, _, _)
prgaLoop(n, S, i, j, position, buffer, k, result) ==
    IF k = Len(buffer)
    THEN [sbox |-> S, i |-> i, j |-> j,
          position |-> position + Len(buffer), out |-> result]
    ELSE
        LET i2 == (i + 1) % SboxSize
            j2 == (j + S[i2]) % SboxSize
            S2 == [S EXCEPT ![i2] = S[j2], ![j2] = S[i2]]
            b == Xor(buffer[k + 1], S2[(S2[i2] + S2[j2]) % SboxSize])
        IN  IF (position + k + 1) % SEGMENT_POSITION = 0
            THEN LET tempPos == position + k + 1
                     r == ResetKSA(tempPos, n)
                 IN  prgaLoop(n, r.sbox, r.i, r.j, tempPos, buffer, k + 1,
                              Append(result, b))
            ELSE prgaLoop(n, S2, i2, j2, position, buffer, k + 1,
                          Append(result, b))

prgaExecute(c, buffer) ==
    prgaLoop(c.size, c.sbox, c.i, c.j, c.position, buffer, 0, <<>>)

\* --------------------------------------------------------------------- mix

\* SHA-256(K_out): the 32-byte encode table before collisions are resolved
\* (stand-in; seed ranges over tables with and without slot collisions).
MixHashOf(seed) ==
    [i \in 0..(MIX_LEN - 1) |-> (seed * (i + 3) + (i * i) * (seed % 5) + 11 * i) % 256]

\* me.encode[i] & byte(length): bit 5 of the byte.
And32(b) == ((b \div MIX_LEN) % 2) * MIX_LEN

\* The first free decode slot, scanning j upward.
RECURSIVE FirstFree(_, _)
FirstFree(check, j) ==
    IF j = MIX_LEN THEN MIX_LEN
    ELSE IF ~check[j] THEN j ELSE FirstFree(check, j + 1)

\* A table loop that leaves a colliding entry as it is.
RECURSIVE MixTablesNoFix(_, _, _, _)
MixTablesNoFix(encode, decode, check, i) ==
    IF i = MIX_LEN THEN [encode |-> encode, decode |-> decode]
    ELSE
        LET slot == Xor(encode[i], i) % MIX_LEN
        IN  IF ~check[slot]
            THEN MixTablesNoFix(encode, [decode EXCEPT ![slot] = encode[i]],
                                [check EXCEPT ![slot] = TRUE], i + 1)
            ELSE MixTablesNoFix(encode, decode, check, i + 1)

\* NewMixEnc's table loop.
RECURSIVE MixTables(_, _, _, _)
MixTables(encode, decode, check, i) ==
    IF i = MIX_LEN THEN [encode |-> encode, decode |-> decode]
    ELSE
        LET enc == Xor(encode[i], i)
            slot == enc % MIX_LEN
        IN  IF ~check[slot]
            THEN MixTables(encode, [decode EXCEPT ![slot] = encode[i]],
                           [check EXCEPT ![slot] = TRUE], i + 1)
            ELSE
                LET j == FirstFree(check, 0)
                IN  IF j = MIX_LEN
                    THEN MixTables(encode, decode, check, i + 1)
                    ELSE
                        LET e == And32(encode[i]) + Xor(j, i)
                        IN  MixTables([encode EXCEPT ![i] = e],
                                      [decode EXCEPT ![j] = e],
                                      [check EXCEPT ![j] = TRUE], i + 1)

MixSubst(table, data) ==
    [k \in 1..Len(data) |-> Xor(data[k], table[data[k] % 32])]

\* --------------------------------------------------- the Encryptor interface

\* A cipher instance.  Every instance carries the fields of all three
\* types; the ones its algorithm does not use keep their zero values.
NoLanes == [l \in 1..IV_LANES |-> 0]
NoTable == <<>>

NewAesCTR(seed, fileSize) ==
    LET iv == SourceIVOf(seed, fileSize)
    IN  [alg |-> "aesctr", size |-> fileSize,
         iv |-> iv, sourceIV |-> iv, ctr |-> iv, used |-> 0,
         position |-> 0, i |-> 0, j |-> 0, sbox |-> NoTable,
         encode |-> NoTable, decode |-> NoTable]

NewRc4Md5(fileSize) ==
    LET r == ResetKSA(0, fileSize)
    IN  [alg |-> "rc4", size |-> fileSize,
         iv |-> NoLanes, sourceIV |-> NoLanes, ctr |-> NoLanes, used |-> 0,
         position |-> 0, i |-> r.i, j |-> r.j, sbox |-> r.sbox,
         encode |-> NoTable, decode |-> NoTable]

NewMixEnc(seed, fileSize) ==
    LET t == MixTables(MixHashOf(seed), [s \in 0..(MIX_LEN - 1) |-> 0],
                       [s \in 0..(MIX_LEN - 1) |-> FALSE], 0)
    IN  [alg |-> "mix", size |-> fileSize,
         iv |-> NoLanes, sourceIV |-> NoLanes, ctr |-> NoLanes, used |-> 0,
         position |-> 0, i |-> 0, j |-> 0, sbox |-> NoTable,
         encode |-> t.encode, decode |-> t.decode]

\* The nil FlowEncryptor that comes with an error.
NilEncryptor ==
    [alg |-> "nil", size |-> 0,
     iv |-> NoLanes, sourceIV |-> NoLanes, ctr |-> NoLanes, used |-> 0,
     position |-> 0, i |-> 0, j |-> 0, sbox |-> NoTable,
     encode |-> NoTable, decode |-> NoTable]

\* A constructor that fails for no name.
NewEncryptorErrNone(encryptType) == ""

\* The error of NewEncryptor: a name without a registered factory fails.
NewEncryptorErr(encryptType) ==
    IF encryptType \in Algorithms THEN ""
    ELSE "unknown encrypt type"

\* NewFlowEnc / NewEncryptor: the instance of the registered factory, nil
\* for a name that has none.
NewFlowEnc(seed, encryptType, fileSize) ==
    CASE encryptType = "aesctr" -> NewAesCTR(seed, fileSize)
      [] encryptType = "rc4" -> NewRc4Md5(fileSize)
      [] encryptType = "mix" -> NewMixEnc(seed, fileSize)
      [] OTHER -> NilEncryptor

\* AesSetPosition that resets the IV and keeps the stream the instance has:
\* no cipher.NewCTR, no skipping of the offset.
AesSetPositionKeepStream(c, position) ==
    [c EXCEPT !.iv = incrementIV(c.sourceIV, position \div AES_BLOCK)]

AesSetPosition(c, position) ==
    LET iv == incrementIV(c.sourceIV, position \div AES_BLOCK)
        offset == position % AES_BLOCK
    IN  [c EXCEPT !.iv = iv, !.ctr = iv, !.used = offset]

\* Rc4SetPosition without the ResetKSA call: the PRGA is advanced from
\* whatever state the instance is in.
Rc4SetPositionNoReset(c, position) ==
    LET s == prgaExecPosition(c.sbox, c.i, c.j, position % SEGMENT_POSITION)
    IN  [c EXCEPT !.position = position, !.sbox = s.sbox, !.i = s.i, !.j = s.j]

Rc4SetPosition(c, position) ==
    LET r == ResetKSA(position, c.size)
        s == prgaExecPosition(r.sbox, r.i, r.j, position % SEGMENT_POSITION)
    IN  [c EXCEPT !.position = position, !.sbox = s.sbox, !.i = s.i, !.j = s.j]

MixSetPosition(c, position) == c

SetPosition(c, position) ==
    CASE c.alg = "aesctr" -> AesSetPosition(c, position)
      [] c.alg = "rc4" -> Rc4SetPosition(c, position)
      [] OTHER -> MixSetPosition(c, position)

\* EncryptData / DecryptData: the instance after the call and the bytes
\* returned.
AesEncryptData(c, data) ==
    LET r == XORKeyStream(c.size, c.ctr, c.used, data, <<>>)
    IN  [enc |-> [c EXCEPT !.ctr = r.ctr, !.used = r.used], out |-> r.out]

Rc4EncryptData(c, data) ==
    LET r == prgaExecute(c, data)
    IN  [enc |-> [c EXCEPT !.sbox = r.sbox, !.i = r.i, !.j = r.j,
                           !.position = r.position],
         out |-> r.out]

MixEncryptData(c, data) == [enc |-> c, out |-> MixSubst(c.encode, data)]

MixDecryptData(c, data) == [enc |-> c, out |-> MixSubst(c.decode, data)]

\* A cipher whose output is one byte longer than its input.
EncryptDataPadded(c, data) ==
    LET e == CASE c.alg = "aesctr" -> AesEncryptData(c, data)
               [] c.alg = "rc4" -> Rc4EncryptData(c, data)
               [] OTHER -> MixEncryptData(c, data)
    IN  [enc |-> e.enc, out |-> e.out \o <<0>>]

EncryptData(c, data) ==
    CASE c.alg = "aesctr" -> AesEncryptData(c, data)
      [] c.alg = "rc4" -> Rc4EncryptData(c, data)
      [] OTHER -> MixEncryptData(c, data)

DecryptData(c, data) ==
    CASE c.alg = "aesctr" -> AesEncryptData(c, data)
      [] c.alg = "rc4" -> Rc4EncryptData(c, data)
      [] OTHER -> MixDecryptData(c, data)


\* ------------------------------------------------------------------- state

VARIABLES
    algorithm,  \* h.algorithm, the configured cipher name
    seed,       \* what the digests of the passphrase and the size hash to
    cipA,       \* cipher level: the instance that is repositioned
    cipB,       \* cipher level: the instance that replays from position 0
    fed,        \* cipher level: bytes cipB has processed since construction
    probe,      \* cipher level: the last comparison made
    heap,       \* the cipher instances allocated, by address (1..Len)
    encryptorCache, \* h.encryptorCache: file size -> address of an instance
    stored,     \* the upstream server: path -> object
    slots,      \* the requests being served, and the last one of each slot
    started,    \* requests started so far
    overlapped, \* whether a request has started while another was in flight
    boot,       \* start-up: the command line and the configuration file
    cfg,        \* start-up: cfg as main leaves it, and how main ended
    front,      \* front end: the request being served and its answer
    dirProbe,   \* director level: a request and its rewritings
    cleaner     \* the clean-up goroutine of the cache and its stop channel

cipherVars == <<cipA, cipB, fed, probe>>
proxyVars == <<heap, encryptorCache, stored, slots, started, overlapped>>
frontVars == <<boot, cfg, front, dirProbe>>
vars == <<algorithm, seed, cipA, cipB, fed, probe,
          heap, encryptorCache, stored, slots, started, overlapped,
          boot, cfg, front, dirProbe, cleaner>>

\* Digest seeds: counter blocks whose low lanes are 0, nearly full and full.
Seeds == {0, LaneMod - 2, LaneMod - 1, LaneMod ^ 2 - 1, LaneMod ^ 4 - 1}

\* Byte values of the buffers: bit 5 clear and set, two slots of the mix
\* tables.
ByteChoices == {65, 254}

\* File sizes the cipher-level instances are built for.
CipherSizes == {5, 40}

Buffers(maxLen) == UNION {[1..n -> ByteChoices] : n \in 1..maxLen}

\* The buffers of the comparisons: every content up to MaxBuf bytes, one
\* content for each longer length up to MaxCall.
ProbeBuffers ==
    Buffers(MaxBuf) \cup {[k \in 1..n |-> 64 + k] : n \in (MaxBuf + 1)..MaxCall}

NoProbe == [kind |-> "none", p |-> 0, buf |-> <<>>, a |-> <<>>, b |-> <<>>,
            iv |-> NoLanes]

\* ------------------------------------------------- the file-type heuristic

NonFileTypes ==
    {"text/html", "text/xml", "application/xml", "application/json",
     "text/css", "application/javascript",
     "application/x-www-form-urlencoded", "multipart/form-data"}

FileExtensions ==
    {".pdf", ".jpg", ".jpeg", ".png", ".gif", ".bmp", ".svg", ".webp",
     ".mp4", ".avi", ".mov", ".wmv", ".flv", ".mkv", ".webm",
     ".mp3", ".wav", ".flac", ".aac", ".ogg", ".m4a",
     ".doc", ".docx", ".xls", ".xlsx", ".ppt", ".pptx",
     ".zip", ".rar", ".7z", ".tar", ".gz", ".bz2",
     ".txt", ".log", ".csv", ".json", ".xml", ".yaml", ".yml",
     ".exe", ".dmg", ".pkg", ".deb", ".rpm"}

\* The listed prefixes a Content-Type value starts with (strings.HasPrefix
\* over the values the model uses).
PrefixesOf(contentType) ==
    CASE contentType = "text/plain" -> {"text/plain"}
      [] contentType = "application/json" -> {"application/json"}
      [] contentType = "application/json; charset=utf-8" -> {"application/json"}
      [] contentType = "application/octet-stream" -> {"application/octet-stream"}
      [] OTHER -> {}

\* isFileContentType: false exactly for a listed non-file prefix.
isFileContentType(contentType) ==
    IF PrefixesOf(contentType) \cap NonFileTypes # {} THEN FALSE ELSE TRUE

\* strings.ToLower on the suffix of a path.
ToLower(ext) == IF ext = ".TXT" THEN ".txt" ELSE ext

\* hasFileExtension: a path is its name and its suffix from the last dot.
hasFileExtension(path) == ToLower(path.ext) \in FileExtensions

\* ------------------------------------------------------- requests, objects

PathTxt == [name |-> "/a", ext |-> ".txt"]
PathBare == [name |-> "/b", ext |-> ""]
Paths == {PathTxt, PathBare}

\* The uploads of the model: both paths with a file Content-Type and every
\* size; the bare path with a non-file Content-Type, with no Content-Type
\* and with an unlisted one; the path with an extension with a non-file
\* Content-Type; a request without a body (n = 0).
UploadInputs ==
    {[path |-> p, n |-> n, ct |-> "text/plain"] : p \in Paths, n \in 1..MaxN}
    \cup {[path |-> PathBare, n |-> 1, ct |-> "application/json"],
          [path |-> PathBare, n |-> 1, ct |-> ""],
          [path |-> PathBare, n |-> 1, ct |-> "application/x-custom"],
          [path |-> PathTxt, n |-> 1, ct |-> "application/json; charset=utf-8"],
          [path |-> PathTxt, n |-> 0, ct |-> "text/plain"]}

\* The body a client uploads to path as an object of n bytes.
Plain(path, n) == [k \in 1..n |-> (IF path.ext = "" THEN 96 ELSE 64) + k]

NoObject ==
    [present |-> FALSE, bytes |-> <<>>, plain |-> <<>>, enc |-> FALSE,
     ct |-> ""]

\* Range: bytes=a-b, Range: bytes=a-, or no Range header.
NoRange == [kind |-> "none", start |-> 0, end |-> 0]
ClientRanges ==
    {NoRange}
    \cup UNION {{[kind |-> "closed", start |-> a, end |-> b] :
                    b \in a..(MaxN - 1)} : a \in 0..(MaxN - 1)}
    \cup {[kind |-> "open", start |-> a, end |-> 0] : a \in 0..(MaxN - 1)}

\* Content-Range: bytes a-b/N, or no such header.
NoCR == [kind |-> "none", start |-> 0, end |-> 0, size |-> 0]
CR(a, b, n) == [kind |-> "range", start |-> a, end |-> b, size |-> n]

Slots == 1..MaxReqs

IdleSlot ==
    [pc |-> "idle", kind |-> "none", path |-> PathTxt, size |-> 0,
     enc |-> 0, sent |-> 0, pipe |-> <<>>,
     rng |-> NoRange, auth |-> FALSE,
     first |-> 0, loc |-> "", hops |-> 0,
     fuSent |-> FALSE, fuMethod |-> "", fuRng |-> NoRange,
     fuAuth |-> FALSE, fuQuery |-> FALSE,
     n302 |-> 0,
     upStatus |-> 0, upCR |-> NoCR, upCL |-> 0, upCT |-> "",
     upBody |-> <<>>, reqCL |-> 0,
     src |-> <<>>, srcPos |-> 0,
     position |-> 0, startPos |-> 0, endPos |-> 0, decrypting |-> FALSE,
     status |-> 0, hdrCL |-> 0, hdrCR |-> NoCR, hdrAR |-> FALSE,
     out |-> <<>>, err |-> "", logged |-> "", bodyErr |-> FALSE,
     ct |-> "", plain |-> <<>>,
     objEnc |-> FALSE, objBytes |-> <<>>, swapped |-> FALSE]

\* The clean-up goroutine as NewProxyHandler starts it: running, its stop
\* channel open; late records a clean-up that ran after Close.
CleanerStarted == [running |-> TRUE, closed |-> FALSE, late |-> FALSE]

\* The proxy before its first request: no instance allocated, the cache
\* and upstream empty, the clean-up goroutine started.
IdleProxy ==
    /\ cleaner = CleanerStarted
    /\ heap = <<>>
    /\ encryptorCache = <<>>
    /\ stored = [p \in Paths |-> NoObject]
    /\ slots = [s \in Slots |-> IdleSlot]
    /\ started = 0
    /\ overlapped = FALSE

InFlight(r) == r.pc \in {"upload", "read"}

\* A new request takes the first slot that serves none.
FreeSlot(s) ==
    /\ ~InFlight(slots[s])
    /\ \A t \in Slots : t < s => InFlight(slots[t])

\* The slots when slot s starts to serve r: the records of the requests
\* that have ended are dropped.
Serve(s, r) ==
    [t \in Slots |-> IF t = s THEN r
                     ELSE IF InFlight(slots[t]) THEN slots[t] ELSE IdleSlot]

\* -------------------------------------------------------- the cipher cache

\* A cache that takes whatever the constructor returned, error or not.
getOrCreateEncryptorNil(h, cache, fileSize) ==
    IF fileSize \in DOMAIN cache
    THEN [id |-> cache[fileSize], heap |-> h, cache |-> cache, err |-> ""]
    ELSE [id |-> Len(h) + 1,
          heap |-> Append(h, NewFlowEnc(seed, algorithm, fileSize)),
          cache |-> [k \in DOMAIN cache \cup {fileSize} |->
                       IF k = fileSize THEN Len(h) + 1 ELSE cache[k]],
          err |-> ""]

\* getOrCreateEncryptor: the cached instance of the size, or a new one that
\* is stored in the cache.  Gives the address and the heap and cache after.
\* The Load and the Store of one call are taken as one step.  When the
\* constructor fails the error is returned and nothing is stored.
getOrCreateEncryptor(h, cache, fileSize) ==
    IF fileSize \in DOMAIN cache
    THEN [id |-> cache[fileSize], heap |-> h, cache |-> cache, err |-> ""]
    ELSE IF NewEncryptorErr(algorithm) # ""
    THEN [id |-> 0, heap |-> h, cache |-> cache,
          err |-> NewEncryptorErr(algorithm)]
    ELSE [id |-> Len(h) + 1,
          heap |-> Append(h, NewFlowEnc(seed, algorithm, fileSize)),
          cache |-> [k \in DOMAIN cache \cup {fileSize} |->
                       IF k = fileSize THEN Len(h) + 1 ELSE cache[k]],
          err |-> ""]

\* ----------------------------------------------------------------- strings

\* Where characters matter a string is the tuple of its characters, and ""
\* is <<>>.
HasPrefix(s, prefix) ==
    Len(prefix) <= Len(s) /\ SubSeq(s, 1, Len(prefix)) = prefix

HasSuffix(s, suffix) ==
    /\ Len(suffix) <= Len(s)
    /\ SubSeq(s, Len(s) - Len(suffix) + 1, Len(s)) = suffix

\* strings.Cut(s, sep) with a separator of one character.
Cut(s, sep) ==
    IF \E i \in 1..Len(s) : s[i] = sep
    THEN LET i == CHOOSE i \in 1..Len(s) :
                      s[i] = sep /\ \A j \in 1..(i - 1) : s[j] # sep
         IN  [before |-> SubSeq(s, 1, i - 1),
              after |-> SubSeq(s, i + 1, Len(s)), found |-> TRUE]
    ELSE [before |-> s, after |-> <<>>, found |-> FALSE]

\* ------------------------------------------------- the Authorization header

\* A header value is its scheme and the text after it; the text of a Basic
\* value is held base64-decoded.  NoHeader is a header that is not there.
NoHeader == [scheme |-> "", text |-> <<>>]

\* "Basic " + base64(user + ":" + pass)
BasicValue(user, pass) ==
    [scheme |-> "Basic", text |-> user \o <<":">> \o pass]

\* r.BasicAuth(): a Basic value cut at its first colon.
BasicAuth(h) ==
    LET c == Cut(h.text, ":")
    IN  IF h.scheme = "Basic" /\ c.found
        THEN [ok |-> TRUE, username |-> c.before, password |-> c.after]
        ELSE [ok |-> FALSE, username |-> <<>>, password |-> <<>>]

\* ------------------------------------------------------------------ start-up

\* The command lines of the model.  --backend and --password are given
\* together or not at all; each credential flag is given or left empty.
Flags ==
    {[backendURL |-> b, password |-> b, authUser |-> au, authPass |-> ap,
      backendUser |-> bu, backendPass |-> bp,
      algorithm |-> "aesctr", debug |-> FALSE] :
        b \in BOOLEAN, au \in {<<>>, <<"f">>}, ap \in {<<>>, <<"p", ":", "1">>},
        bu \in {<<>>, <<"b">>}, bp \in {<<>>, <<"s">>}}

\* A command line with no flag given.
NoFlags ==
    [backendURL |-> FALSE, password |-> FALSE, authUser |-> <<>>,
     authPass |-> <<>>, backendUser |-> <<>>, backendPass |-> <<>>,
     algorithm |-> "aesctr", debug |-> FALSE]

\* The configuration files of the model: none; one that names the backend
\* URL and the password; one that names the backend URL only.  A file
\* gives each proxy credential or not, and both backend credentials or
\* neither; it does not set enable_auth.  logLevel is the value of the key
\* log_level, "unset" for a file without the key.
NoFile ==
    [kind |-> "none", authUser |-> <<>>, authPass |-> <<>>,
     backendUser |-> <<>>, backendPass |-> <<>>,
     logLevel |-> "unset", debug |-> FALSE]

Files ==
    {NoFile}
    \cup {[kind |-> k, authUser |-> au, authPass |-> ap,
           backendUser |-> b[1], backendPass |-> b[2],
           logLevel |-> "unset", debug |-> FALSE] :
            k \in {"complete", "no password"},
            au \in {<<>>, <<"c">>}, ap \in {<<>>, <<"q">>},
            b \in {<< <<>>, <<>> >>, << <<"d">>, <<"t">> >>}}

\* The algorithm names Validate accepts.
validAlgorithms == {"mix", "rc4", "aesctr"}

\* A validation that does not look at the chunk size.
ValidateNoChunk(c) ==
    IF ~c.BackendURL THEN "backend URL is required"
    ELSE IF ~c.Password THEN "encryption password is required"
    ELSE IF c.Algorithm \notin validAlgorithms THEN "invalid algorithm"
    ELSE IF c.EnableAuth /\ (c.AuthUser = <<>> \/ c.AuthPass = <<>>)
    THEN "auth user and password are required when auth is enabled"
    ELSE ""

\* Config.Validate.  Gives the text of the error, "" for nil; the
\* configuration is read only.
Validate(c) ==
    IF ~c.BackendURL THEN "backend URL is required"
    ELSE IF ~c.Password THEN "encryption password is required"
    ELSE IF c.Algorithm \notin validAlgorithms THEN "invalid algorithm"
    ELSE IF c.ChunkSize <= 0 THEN "chunk size must be positive"
    ELSE IF c.EnableAuth /\ (c.AuthUser = <<>> \/ c.AuthPass = <<>>)
    THEN "auth user and password are required when auth is enabled"
    ELSE ""

\* loadDefaults: no URL, no password, no credentials, auth off, the
\* default algorithm, chunk size and log level.
loadDefaults ==
    [BackendURL |-> FALSE, Password |-> FALSE, EnableAuth |-> FALSE,
     AuthUser |-> <<>>, AuthPass |-> <<>>,
     BackendUser |-> <<>>, BackendPass |-> <<>>,
     Algorithm |-> "aesctr", ChunkSize |-> 8192,
     Debug |-> FALSE, LogLevel |-> "info"]

\* The Config main builds itself when Load has failed: the zero value with
\* the fields main assigns; LogLevel is not among them.
NewConfig == [loadDefaults EXCEPT !.LogLevel = ""]

\* config.Load: the defaults, overlaid with the file, then validated.
Load(file) ==
    LET c == IF file.kind = "none" THEN loadDefaults
             ELSE [loadDefaults EXCEPT
                      !.BackendURL = TRUE,
                      !.Password = (file.kind = "complete"),
                      !.AuthUser = file.authUser,
                      !.AuthPass = file.authPass,
                      !.BackendUser = file.backendUser,
                      !.BackendPass = file.backendPass,
                      !.Debug = file.debug,
                      !.LogLevel = IF file.logLevel = "unset"
                                   THEN loadDefaults.LogLevel
                                   ELSE file.logLevel]
    IN  [cfg |-> c, err |-> Validate(c)]

\* main after config.Load: a configuration that failed to load for a
\* missing URL or password is replaced by a new one with the defaults.
LoadOrNew(file) ==
    LET l == Load(file)
    IN  IF l.err = "" THEN [cfg |-> [l.cfg EXCEPT !.EnableAuth = FALSE],
                            fatal |-> FALSE]
        ELSE IF l.err \in {"backend URL is required",
                           "encryption password is required"}
        THEN [cfg |-> NewConfig, fatal |-> FALSE]
        ELSE [cfg |-> l.cfg, fatal |-> TRUE]

\* main: a flag that was given replaces the value of the configuration.
Override(flags, c) ==
    [c EXCEPT
        !.BackendURL = (flags.backendURL \/ c.BackendURL),
        !.Password = (flags.password \/ c.Password),
        !.Algorithm = flags.algorithm,
        !.Debug = IF flags.debug # FALSE THEN flags.debug ELSE c.Debug,
        !.BackendUser = IF flags.backendUser # <<>> THEN flags.backendUser
                        ELSE c.BackendUser,
        !.BackendPass = IF flags.backendPass # <<>> THEN flags.backendPass
                        ELSE c.BackendPass,
        !.AuthUser = IF flags.authUser # <<>> THEN flags.authUser
                     ELSE c.AuthUser,
        !.AuthPass = IF flags.authPass # <<>> THEN flags.authPass
                     ELSE c.AuthPass]

\* main: the three branches that settle the front-side credentials.
ResolveAuth(flags, c) ==
    IF \/ (flags.authUser # <<>> /\ flags.authPass # <<>>)
       \/ (c.AuthUser # <<>> /\ c.AuthPass # <<>>)
    THEN IF flags.authUser # <<>> /\ flags.authPass # <<>>
         THEN [c EXCEPT !.EnableAuth = TRUE,
                        !.AuthUser = flags.authUser,
                        !.AuthPass = flags.authPass]
         ELSE [c EXCEPT !.EnableAuth = TRUE]
    ELSE IF \/ (flags.backendUser # <<>> /\ flags.backendPass # <<>>)
            \/ (c.BackendUser # <<>> /\ c.BackendPass # <<>>)
    THEN [c EXCEPT !.EnableAuth = TRUE,
                   !.AuthUser = c.BackendUser,
                   !.AuthPass = c.BackendPass]
    ELSE [c EXCEPT !.EnableAuth = FALSE,
                   !.AuthUser = <<>>, !.AuthPass = <<>>]

\* main up to the start of the server: the configuration the handlers are
\* built from, and whether the process went on ("running") or stopped in
\* log.Fatal ("fatal").
MainConfig(flags, file) ==
    LET l == LoadOrNew(file)
        c == ResolveAuth(flags, Override(flags, l.cfg))
    IN  [state |-> IF l.fatal \/ Validate(c) # "" THEN "fatal" ELSE "running",
         BackendURL |-> c.BackendURL, Password |-> c.Password,
         EnableAuth |-> c.EnableAuth,
         AuthUser |-> c.AuthUser, AuthPass |-> c.AuthPass,
         BackendUser |-> c.BackendUser, BackendPass |-> c.BackendPass]

\* ParseLogLevel after strings.ToUpper: the level a text names, INFO for
\* any other text.
ToUpper(level) ==
    CASE level = "trace" -> "TRACE"
      [] level = "debug" -> "DEBUG"
      [] level = "info" -> "INFO"
      [] level = "warn" -> "WARN"
      [] level = "Warning" -> "WARNING"
      [] level = "error" -> "ERROR"
      [] level = "fatal" -> "FATAL"
      [] level = "verbose" -> "VERBOSE"
      [] OTHER -> level

ParseLogLevel(level) ==
    CASE ToUpper(level) = "TRACE" -> "LogLevelTrace"
      [] ToUpper(level) = "DEBUG" -> "LogLevelDebug"
      [] ToUpper(level) = "INFO" -> "LogLevelInfo"
      [] ToUpper(level) \in {"WARN", "WARNING"} -> "LogLevelWarn"
      [] ToUpper(level) = "ERROR" -> "LogLevelError"
      [] ToUpper(level) = "FATAL" -> "LogLevelFatal"
      [] OTHER -> "LogLevelInfo"

\* utils.GetLogLevel: a level text that is not empty decides; the debug
\* flag is asked only when it is empty.
GetLogLevel(logLevel, debug) ==
    IF logLevel # "" THEN ParseLogLevel(logLevel)
    ELSE IF debug THEN "LogLevelDebug"
    ELSE "LogLevelInfo"

\* main: the level the logger is created with.
MainLogLevel(flags, file) ==
    LET c == Override(flags, LoadOrNew(file).cfg)
    IN  GetLogLevel(c.LogLevel, c.Debug)

\* Before main has run.
NoConfig ==
    [state |-> "start", BackendURL |-> FALSE, Password |-> FALSE,
     EnableAuth |-> FALSE, AuthUser |-> <<>>, AuthPass |-> <<>>,
     BackendUser |-> <<>>, BackendPass |-> <<>>]

\* main: backendAuthConfig is built whatever the credentials are.
\* A backendAuthConfig that is nil when neither a user nor a password is
\* configured.
BackendAuthConfigNilIfEmpty(c) ==
    [nil |-> (c.BackendUser = <<>> /\ c.BackendPass = <<>>),
     Username |-> c.BackendUser, Password |-> c.BackendPass]

BackendAuthConfig(c) ==
    [nil |-> FALSE, Username |-> c.BackendUser, Password |-> c.BackendPass]

\* main: proxyAuthConfig stays nil unless auth is enabled.
ProxyAuthConfig(c) ==
    IF c.EnableAuth
    THEN [nil |-> FALSE, Enabled |-> TRUE,
          Username |-> c.AuthUser, Password |-> c.AuthPass]
    ELSE [nil |-> TRUE, Enabled |-> FALSE,
          Username |-> <<>>, Password |-> <<>>]

\* ------------------------------------------------- the front-side middleware

\* A check of the user name alone.
checkAuthUserOnly(authConfig, authorization) ==
    LET b == BasicAuth(authorization)
    IN  b.ok /\ b.username = authConfig.Username

\* checkAuth: Basic credentials that parse and equal the configured ones.
checkAuth(authConfig, authorization) ==
    LET b == BasicAuth(authorization)
    IN  /\ b.ok
        /\ b.username = authConfig.Username
        /\ b.password = authConfig.Password

\* main and NewProxyAuthMiddleware: whether the handler is wrapped.
MiddlewareInstalled(c) ==
    c.EnableAuth /\ ~ProxyAuthConfig(c).nil /\ ProxyAuthConfig(c).Enabled

\* ------------------------------------------------------ ProxyHandler.ServeHTTP

ProxiedMethods ==
    {"GET", "HEAD", "POST", "PUT", "DELETE", "PROPFIND", "PROPPATCH",
     "MKCOL", "COPY", "MOVE", "LOCK", "UNLOCK"}

\* A dispatch that hands every method to the reverse proxy.
ServeHTTPAny(method) == "reverseProxy"

\* ServeHTTP: the branch of the switch a method takes.
ServeHTTP(method) ==
    IF method \in ProxiedMethods THEN "reverseProxy" ELSE "405"

\* ---------------------------------------------------------------- director

\* singleJoiningSlash: the two paths with one slash between them.
singleJoiningSlash(a, b) ==
    LET aslash == HasSuffix(a, <<"/">>)
        bslash == HasPrefix(b, <<"/">>)
    IN  IF aslash /\ bslash THEN a \o Tail(b)
        ELSE IF ~aslash /\ ~bslash THEN a \o <<"/">> \o b
        ELSE a \o b

\* An Authorization header that is set only when the client sent none.
AddAuthorization(backendAuth, authorization) ==
    IF ~backendAuth.nil /\ authorization = NoHeader
    THEN BasicValue(backendAuth.Username, backendAuth.Password)
    ELSE authorization

\* director: the Authorization header of the forwarded request.
SetAuthorization(backendAuth, authorization) ==
    IF ~backendAuth.nil
    THEN BasicValue(backendAuth.Username, backendAuth.Password)
    ELSE authorization

\* A path that is joined to the backend path whatever it starts with.
DirectorPathJoined(backendPath, reqPath) ==
    singleJoiningSlash(backendPath, reqPath)

\* director: the path of the forwarded request.
DirectorPath(backendPath, reqPath) ==
    IF HasPrefix(reqPath, backendPath) THEN reqPath
    ELSE singleJoiningSlash(backendPath, reqPath)

\* director: the request as it leaves for upstream.  A request is its URL
\* (scheme, host, path, query), its Host and its Authorization header.
director(backend, backendAuth, r) ==
    [scheme |-> backend.scheme,
     host |-> backend.host,
     path |-> DirectorPath(backend.path, r.path),
     query |-> IF backend.query = <<>> \/ r.query = <<>>
               THEN backend.query \o r.query
               ELSE backend.query \o <<"&">> \o r.query,
     hostHeader |-> backend.host,
     auth |-> SetAuthorization(backendAuth, r.auth)]

\* A request as the server hands it to the handler: the URL of a request
\* line has no scheme and no host.
Inbound(path, query, auth) ==
    [scheme |-> "", host |-> "", path |-> path, query |-> query,
     hostHeader |-> "proxy.local", auth |-> auth]

NoRequest == Inbound(<<>>, <<>>, NoHeader)

\* ------------------------------------------------------ front-end state

NoAnswer == [status |-> 0, www |-> "", body |-> ""]

IdleRequest ==
    [pc |-> "idle", method |-> "", in |-> NoRequest, fwd |-> NoRequest,
     sent |-> 0, up |-> NoAnswer, err |-> "", resp |-> NoAnswer, by |-> ""]

NoDirProbe ==
    [backend |-> [scheme |-> "", host |-> "", path |-> <<>>, query |-> <<>>],
     backendAuth |-> [nil |-> TRUE, Username |-> <<>>, Password |-> <<>>],
     in |-> NoRequest, once |-> NoRequest, twice |-> NoRequest, n |-> 0]

IdleFront ==
    /\ boot = [flags |-> NoFlags, file |-> NoFile]
    /\ cfg = NoConfig
    /\ front = IdleRequest
    /\ dirProbe = NoDirProbe

\* ------------------------------------------------------------ handleUpload

\* A gate that looks at the Content-Type alone.
UploadEncryptsByType(path, contentType) == isFileContentType(contentType)

\* The encrypting branch is taken unless the Content-Type is a listed
\* non-file type and the path has no known extension.
UploadEncrypts(path, contentType) ==
    isFileContentType(contentType) \/ hasFileExtension(path)

\* RoundTrip of a PUT with a body of n bytes and ContentLength cl, which
\* is n, or -1 for a body sent with chunked transfer encoding; n = 0 is a
\* request whose Body is nil.  A body that is not encrypted is forwarded as it is and
\* stored by upstream; otherwise the cipher of the size is taken from the
\* cache and the encrypting goroutine starts.
StartUpload(s, path, n, cl, contentType) ==
    /\ started < MaxStarts
    /\ FreeSlot(s)
    /\ started' = started + 1
    /\ overlapped' = (overlapped \/ \E t \in Slots : InFlight(slots[t]))
    /\ IF n = 0 \/ ~UploadEncrypts(path, contentType)
          \/ getOrCreateEncryptor(heap, encryptorCache, cl).err # ""
       THEN /\ stored' = [stored EXCEPT ![path] =
                            [present |-> TRUE, bytes |-> Plain(path, n),
                             plain |-> Plain(path, n), enc |-> FALSE,
                             ct |-> contentType]]
            /\ slots' = Serve(s, [IdleSlot EXCEPT
                                     !.pc = "done", !.kind = "put",
                                     !.path = path, !.size = n, !.sent = n,
                                     !.ct = contentType,
                                     !.pipe = Plain(path, n),
                                     !.plain = Plain(path, n),
                                     !.status = 201,
                                     !.logged =
                                        IF n = 0
                                           \/ ~UploadEncrypts(path,
                                                              contentType)
                                        THEN ""
                                        ELSE getOrCreateEncryptor(
                                                heap, encryptorCache, cl).err])
            /\ UNCHANGED <<heap, encryptorCache>>
       ELSE LET g == getOrCreateEncryptor(heap, encryptorCache, cl)
            IN  /\ heap' = g.heap
                /\ encryptorCache' = g.cache
                /\ slots' = Serve(s, [IdleSlot EXCEPT
                                         !.pc = "upload", !.kind = "put",
                                         !.path = path, !.size = n,
                                         !.enc = g.id, !.ct = contentType,
                                         !.reqCL = cl, !.upCL = cl,
                                         !.plain = Plain(path, n),
                                         !.objEnc = TRUE])
                /\ UNCHANGED stored
    /\ UNCHANGED <<algorithm, seed, cleaner>>
    /\ UNCHANGED cipherVars
    /\ UNCHANGED frontVars

\* One pass of the encrypting loop: k bytes are read from the client body,
\* encrypted from wherever the instance stands, and written to the pipe.
UploadChunk(s, k) ==
    LET r == slots[s]
    IN  /\ r.pc = "upload"
        /\ r.sent + k <= r.size
        /\ LET e == EncryptData(heap[r.enc],
                                SubSeq(r.plain, r.sent + 1, r.sent + k))
           IN  /\ heap' = [heap EXCEPT ![r.enc] = e.enc]
               /\ slots' = [slots EXCEPT ![s] =
                              [r EXCEPT !.sent = r.sent + k,
                                        !.pipe = r.pipe \o e.out]]
        /\ UNCHANGED <<algorithm, seed, cleaner, encryptorCache, stored, started,
                       overlapped>>
        /\ UNCHANGED cipherVars
        /\ UNCHANGED frontVars

\* The client body ends: the pipe is closed and upstream stores what it
\* received.
UploadFinish(s) ==
    LET r == slots[s]
    IN  /\ r.pc = "upload"
        /\ r.sent = r.size
        /\ stored' = [stored EXCEPT ![r.path] =
                         [present |-> TRUE, bytes |-> r.pipe,
                          plain |-> r.plain, enc |-> TRUE, ct |-> r.ct]]
        /\ slots' = [slots EXCEPT ![s] = [r EXCEPT !.pc = "done",
                                                   !.status = 201]]
        /\ UNCHANGED <<algorithm, seed, cleaner, heap, encryptorCache, started,
                       overlapped>>
        /\ UNCHANGED cipherVars
        /\ UNCHANGED frontVars

\* --------------------------------------------- cipher-level specification
\* One run is one test of the cipher interface: the replaying instance is
\* driven from position 0 to a position by calls of any sizes, then one
\* comparison is made there and recorded in probe.

InitCipher ==
    /\ algorithm \in Algorithms
    /\ seed \in (IF algorithm = "rc4" THEN {0} ELSE Seeds)
    /\ \E n \in CipherSizes :
          /\ cipA = NewFlowEnc(seed, algorithm, n)
          /\ cipB = NewFlowEnc(seed, algorithm, n)
    /\ fed = 0
    /\ probe = NoProbe
    /\ IdleProxy
    /\ IdleFront

\* The replaying instance processes n more dummy bytes in one call.
ReplayProcess(n) ==
    /\ probe.kind = "none"
    /\ fed + n <= MaxSeekPos
    /\ cipB' = EncryptData(cipB, Zeros(n)).enc
    /\ fed' = fed + n
    /\ UNCHANGED <<algorithm, seed, cleaner, cipA, probe>>
    /\ UNCHANGED proxyVars
    /\ UNCHANGED frontVars

\* SetPosition(fed) then EncryptData(buf) on cipA, against EncryptData(buf)
\* on cipB, which has processed fed bytes since it was constructed.
SeekProbe(buf) ==
    /\ probe.kind = "none"
    /\ LET a0 == SetPosition(cipA, fed)
           a == EncryptData(a0, buf)
           b == EncryptData(cipB, buf)
       IN  /\ cipA' = a.enc
           /\ cipB' = b.enc
           /\ probe' = [kind |-> "seek", p |-> fed, buf |-> buf,
                        a |-> a.out, b |-> b.out, iv |-> a0.iv]
    /\ fed' = fed + Len(buf)
    /\ UNCHANGED <<algorithm, seed, cleaner>>
    /\ UNCHANGED proxyVars
    /\ UNCHANGED frontVars

\* SetPosition(p), EncryptData(buf) on cipA at p = fed; then SetPosition(p),
\* DecryptData of the result, on the same instance (fresh = FALSE) or on a
\* newly constructed one for the same size (fresh = TRUE).
RoundTripProbe(buf, fresh) ==
    /\ probe.kind = "none"
    /\ fed < cipA.size
    /\ fed + Len(buf) <= cipA.size
    /\ LET p == fed
           e == EncryptData(SetPosition(cipA, p), buf)
           d0 == IF fresh THEN NewFlowEnc(seed, algorithm, cipA.size) ELSE e.enc
           d == DecryptData(SetPosition(d0, p), e.out)
       IN  /\ cipA' = IF fresh THEN e.enc ELSE d.enc
           /\ probe' = [kind |-> "trip", p |-> p, buf |-> buf,
                        a |-> e.out, b |-> d.out, iv |-> NoLanes]
    /\ UNCHANGED <<algorithm, seed, cleaner, cipB, fed>>
    /\ UNCHANGED proxyVars
    /\ UNCHANGED frontVars

NextCipher ==
    \/ \E n \in 1..MaxCall : ReplayProcess(n)
    \/ \E buf \in ProbeBuffers : SeekProbe(buf)
    \/ \E buf \in ProbeBuffers, fresh \in BOOLEAN :
          RoundTripProbe(buf, fresh)

SpecCipher == InitCipher /\ [][NextCipher]_vars

\* The same tests of mix instances over more encode tables.
MixSeeds == 0..MaxMixSeed

InitMix ==
    /\ algorithm = "mix"
    /\ seed \in MixSeeds
    /\ \E n \in CipherSizes :
          /\ cipA = NewFlowEnc(seed, algorithm, n)
          /\ cipB = NewFlowEnc(seed, algorithm, n)
    /\ fed = 0
    /\ probe = NoProbe
    /\ IdleProxy
    /\ IdleFront

SpecMix == InitMix /\ [][NextCipher]_vars

\* -------------------------------------------- properties, cipher level

\* C6: seek equivalence for aesctr.  SetPosition(p) then EncryptData(B)
\* returns the bytes a fresh instance returns for B after processing p
\* dummy bytes, and incrementIV(p / 16) leaves the counter block that p / 16
\* successive CTR increments of the initial counter block give.
AesSeekEquivalence ==
    (algorithm = "aesctr" /\ probe.kind = "seek") =>
        /\ probe.a = probe.b
        /\ probe.iv = CtrIncN(cipA.sourceIV, probe.p \div AES_BLOCK)

\* C7: seek equivalence for rc4.  SetPosition(p) then EncryptData(B) returns
\* the bytes a fresh instance returns for B after processing p dummy bytes
\* in any number of calls.
Rc4SeekEquivalence ==
    (algorithm = "rc4" /\ probe.kind = "seek") => probe.a = probe.b

\* C8: positioned round trip.  For each algorithm, p in [0, N) and buffer B
\* with p + len(B) <= N, decrypting after SetPosition(p) what was encrypted
\* after SetPosition(p) returns B.
PositionedRoundTrip ==
    probe.kind = "trip" => probe.b = probe.buf

\* A round trip of rc4 whose buffer crosses a segment boundary, with a
\* ciphertext that differs from the plaintext.
PositionedRoundTripWitness ==
    /\ probe.kind = "trip"
    /\ algorithm = "rc4"
    /\ probe.p > 0
    /\ (probe.p % SEGMENT_POSITION) + Len(probe.buf) > SEGMENT_POSITION
    /\ probe.a # probe.buf
    /\ probe.b = probe.buf

\* ---------------------------------------------------------- handleDownload

\* What upstream answers: status, Content-Length, Content-Range,
\* Content-Type, body, and the Location of a 302.
Response(status, cr, contentType, body, loc) ==
    [status |-> status, cl |-> Len(body), cr |-> cr, ct |-> contentType,
     body |-> body, loc |-> loc]

\* The byte range of an object of n bytes that a Range header selects, when
\* upstream honours it.
RangeValid(rng, n) ==
    \/ rng.kind = "closed" /\ rng.start <= rng.end /\ rng.end < n
    \/ rng.kind = "open" /\ rng.start < n

RangeEnd(rng, n) == IF rng.kind = "closed" THEN rng.end ELSE n - 1

\* The answers of upstream to a GET of path with header Range: rng.  A
\* missing object gives 404; a stored one is served whole with 200, or its
\* range with 206 and Content-Range.
Answers(path, rng) ==
    LET obj == stored[path]
        n == Len(obj.bytes)
    IN  IF ~obj.present
        THEN {Response(404, NoCR, "text/html", <<>>, "")}
        ELSE {Response(200, NoCR, obj.ct, obj.bytes, "")}
             \cup (IF RangeValid(rng, n)
                   THEN {Response(206, CR(rng.start, RangeEnd(rng, n), n),
                                  obj.ct,
                                  SubSeq(obj.bytes, rng.start + 1,
                                         RangeEnd(rng, n) + 1), "")}
                   ELSE {})

\* Location values: one http.NewRequest rejects, a URL without a query
\* string, a URL with one.
Locations == {"bad", "plain", "query"}

\* How upstream redirects one GET: n answers of 302 in a row before its
\* final answer, the first of them with Location loc.  The numbers are the
\* ones around the limit.
NoRedirect == [n |-> 0, loc |-> ""]
RedirectInputs ==
    {NoRedirect, [n |-> 1, loc |-> "bad"]}
    \cup {[n |-> n, loc |-> l] :
            n \in {1, MAX_REDIRECTS, MAX_REDIRECTS + 1},
            l \in Locations \ {"bad"}}

\* redirectReq.URL.RawQuery != ""
HasQuery(loc) == loc = "query"

\* The follow-up request with the forwarded request's Authorization left
\* in place whatever the Location.
FollowUpKeepsAuth(auth, loc) == auth

\* The Authorization header of the follow-up request: the forwarded
\* request's, deleted when the Location has a query string.
FollowUpAuth(auth, loc) == IF HasQuery(loc) THEN FALSE ELSE auth

\* CheckRedirect without the limit.
CheckRedirectNoLimit(via) == FALSE

\* CheckRedirect with len(via) = via: TRUE when it returns the error.
CheckRedirect(via) == via >= MAX_REDIRECTS

\* client.Do from its first request on: sent counts the requests the client
\* has sent, more the answers of 302 that upstream still gives.  Each 302
\* is followed unless CheckRedirect refuses.
RECURSIVE FollowRedirects(_, _)
FollowRedirects(sent, more) ==
    IF more = 0 THEN [hops |-> sent, err |-> ""]
    ELSE IF CheckRedirect(sent)
         THEN [hops |-> sent, err |-> "too many redirects"]
         ELSE FollowRedirects(sent + 1, more - 1)

\* strings.Contains(err.Error(), "401") over the error texts of the model.
Contains401(err) ==
    CASE err = "dial tcp 10.0.0.1:4010: connect: connection refused" -> TRUE
      [] OTHER -> FALSE

\* An error handler with one body for every error.
errorHandlerGeneric(err) == [status |-> 502, body |-> "Gateway error"]

\* errorHandler: every transport error becomes a 502.
errorHandler(err) ==
    [status |-> 502,
     body |-> IF Contains401(err) THEN "Backend authentication failed"
              ELSE "Gateway error"]

\* The download gate: decryption is skipped for a listed non-file
\* Content-Type on a path without a known extension and without an
\* attachment disposition (upstream sends no Content-Disposition here).
DownloadDecrypts(path, contentType) ==
    isFileContentType(contentType) \/ hasFileExtension(path)

\* A Content-Range value is a record of its kind and its three numbers.
\* The kinds are the well-formed "bytes start-end/size" ("range") and
\* values that are not: one without a slash ("garbage", as in "bytes"),
\* and "bytes start-end/size" with letters in place of the size
\* ("badtotal"), of the start ("badstart") or of the end ("badend").
\* The fields of a part that is letters are not read.
MalformedKinds == {"garbage", "badtotal", "badstart", "badend"}

\* What lines 303-327 get out of a Content-Range value: whether it splits
\* at one slash into a range of two parts, and which of the three
\* strconv.ParseInt calls succeed.
ParseContentRange(cr) ==
    [split |-> cr.kind \in {"range", "badtotal", "badstart", "badend"},
     totalOk |-> cr.kind \in {"range", "badstart", "badend"},
     startOk |-> cr.kind \in {"range", "badtotal", "badend"},
     endOk |-> cr.kind \in {"range", "badtotal", "badstart"}]

\* Lines 286-356: the file size and the range of the response.
DecideRange(resp, rng) ==
    LET size0 == resp.cl
        fromCR == resp.cr.kind # "none"
        p == ParseContentRange(resp.cr)
        fromReq == resp.cr.kind = "none" /\ rng.kind # "none"
        fullFileSize == IF fromCR /\ p.split /\ p.totalOk THEN resp.cr.size
                        ELSE size0
        startPos == IF fromCR
                    THEN (IF p.split /\ p.startOk THEN resp.cr.start ELSE 0)
                    ELSE IF fromReq THEN rng.start ELSE 0
        end0 == IF fromCR
                THEN (IF ~p.split THEN 0
                      ELSE IF p.endOk THEN resp.cr.end
                      ELSE fullFileSize - 1)
                ELSE IF fromReq
                     THEN (IF rng.kind = "closed" THEN rng.end
                           ELSE fullFileSize - 1)
                     ELSE 0
        endPos == IF end0 = 0 /\ fullFileSize > 0
                  THEN fullFileSize - 1 ELSE end0
    IN  [fullFileSize |-> fullFileSize, startPos |-> startPos,
         endPos |-> endPos,
         isPartial |-> (resp.status = 206 \/ fromReq)]

\* handleDownload from line 266 on, for the response resp of upstream (the
\* first one, or the one the redirect chain ended with): the request slot,
\* the heap and the cache after it.
handleResponse(r, resp, h, cache) ==
    LET obj == stored[r.path]
        seen == [r EXCEPT !.upStatus = resp.status, !.upCR = resp.cr,
                          !.upCL = resp.cl, !.upCT = resp.ct,
                          !.upBody = resp.body,
                          !.plain = obj.plain, !.objEnc = obj.enc,
                          !.objBytes = obj.bytes]
    IN  IF (resp.status # 200 /\ resp.status # 206)
           \/ ~DownloadDecrypts(r.path, resp.ct)
        THEN [slot |-> [seen EXCEPT !.pc = "done", !.status = resp.status,
                                    !.hdrCL = resp.cl, !.hdrCR = resp.cr,
                                    !.out = resp.body],
              heap |-> h, cache |-> cache]
        ELSE LET d == DecideRange(resp, r.rng)
                 g == getOrCreateEncryptor(h, cache, d.fullFileSize)
                 partial == d.isPartial \/ d.startPos > 0
             IN  IF g.err # ""
                 THEN [slot |-> [seen EXCEPT !.pc = "done",
                                             !.status = resp.status,
                                             !.hdrCL = resp.cl,
                                             !.hdrCR = resp.cr,
                                             !.out = resp.body,
                                             !.logged = g.err],
                       heap |-> h, cache |-> cache]
                 ELSE
                 [slot |->
                    [seen EXCEPT
                       !.pc = "read", !.decrypting = TRUE, !.enc = g.id,
                       !.src = resp.body, !.srcPos = 0,
                       !.position = d.startPos, !.startPos = d.startPos,
                       !.endPos = d.endPos,
                       !.hdrAR = TRUE,
                       !.status = IF partial THEN 206 ELSE resp.status,
                       !.hdrCL = IF partial THEN d.endPos - d.startPos + 1
                                 ELSE d.fullFileSize,
                       !.hdrCR = IF partial
                                 THEN CR(d.startPos, d.endPos, d.fullFileSize)
                                 ELSE resp.cr],
                  heap |-> [g.heap EXCEPT ![g.id] =
                              SetPosition(g.heap[g.id], d.startPos)],
                  cache |-> g.cache]

\* Answers of upstream to the same GET whose Content-Range is not well
\* formed: the whole object with 200 and a value without a slash, and the
\* range with 206 and each malformed variant of its Content-Range.
MalformedAnswers(path, rng) ==
    LET obj == stored[path]
        n == Len(obj.bytes)
    IN  IF ~obj.present THEN {}
        ELSE {Response(200, [NoCR EXCEPT !.kind = "garbage"], obj.ct,
                       obj.bytes, "")}
             \cup (IF RangeValid(rng, n)
                   THEN {Response(206,
                                  [CR(rng.start, RangeEnd(rng, n), n)
                                     EXCEPT !.kind = k],
                                  obj.ct,
                                  SubSeq(obj.bytes, rng.start + 1,
                                         RangeEnd(rng, n) + 1), "") :
                           k \in MalformedKinds}
                   ELSE {})

\* The client requests of the model: the file path with every Range and
\* with and without Authorization on the forwarded request, the bare path
\* whole.
DownloadInputs ==
    {[path |-> PathTxt, rng |-> g, auth |-> TRUE] : g \in ClientRanges}
    \cup {[path |-> PathTxt, rng |-> NoRange, auth |-> FALSE],
          [path |-> PathBare, rng |-> NoRange, auth |-> TRUE]}

\* Upstream redirects the GETs of whole objects only.
RedirectsFor(req) ==
    IF req.rng.kind = "none" THEN RedirectInputs ELSE {NoRedirect}

\* RoundTrip of a GET.  The request is sent upstream; a 302 whose Location
\* does not parse is returned as it is; one whose Location parses starts
\* the follow-up GET, and client.Do follows the chain to its final answer
\* or to the error of CheckRedirect, which the reverse proxy turns into a
\* 502.  The final answer resp is then gated and wrapped for decryption.
StartDownload(s, req, redir, resp) ==
    /\ started < MaxStarts
    /\ FreeSlot(s)
    /\ started' = started + 1
    /\ overlapped' = (overlapped \/ \E t \in Slots : InFlight(slots[t]))
    /\ LET r == [IdleSlot EXCEPT !.kind = "get", !.path = req.path,
                                 !.rng = req.rng, !.auth = req.auth,
                                 !.n302 = redir.n]
           f == [r EXCEPT !.first = 302, !.loc = redir.loc,
                          !.fuSent = TRUE, !.fuMethod = "GET",
                          !.fuRng = r.rng,
                          !.fuQuery = HasQuery(redir.loc),
                          !.fuAuth = FollowUpAuth(r.auth, redir.loc)]
           c == FollowRedirects(1, redir.n - 1)
       IN  IF redir.n > 0 /\ redir.loc = "bad"
           THEN /\ slots' = Serve(s, [r EXCEPT !.pc = "done", !.first = 302,
                                               !.loc = redir.loc,
                                               !.upStatus = 302,
                                               !.status = 302])
                /\ UNCHANGED <<heap, encryptorCache>>
           ELSE IF redir.n > 0 /\ c.err # ""
           THEN /\ slots' = Serve(s, [f EXCEPT
                                        !.pc = "done", !.hops = c.hops,
                                        !.err = c.err,
                                        !.status = errorHandler(c.err).status,
                                        !.upStatus = 302])
                /\ UNCHANGED <<heap, encryptorCache>>
           ELSE LET d == handleResponse(
                             IF redir.n > 0 THEN [f EXCEPT !.hops = c.hops]
                             ELSE r,
                             resp, heap, encryptorCache)
                IN  /\ slots' = Serve(s, d.slot)
                    /\ heap' = d.heap
                    /\ encryptorCache' = d.cache
    /\ UNCHANGED <<algorithm, seed, cleaner, stored>>
    /\ UNCHANGED cipherVars
    /\ UNCHANGED frontVars

\* decryptReader.Read when the source hands over k bytes: they are
\* decrypted at dr.position and delivered.
ReaderRead(s, k) ==
    LET r == slots[s]
    IN  /\ r.pc = "read"
        /\ ~(r.endPos > 0 /\ r.position >= r.endPos)
        /\ k <= Len(r.src) - r.srcPos
        /\ r.endPos > 0 => k <= r.endPos - r.position + 1
        /\ LET d == DecryptData(SetPosition(heap[r.enc], r.position),
                                SubSeq(r.src, r.srcPos + 1, r.srcPos + k))
           IN  /\ heap' = [heap EXCEPT ![r.enc] = d.enc]
               /\ slots' = [slots EXCEPT ![s] =
                              [r EXCEPT !.srcPos = r.srcPos + k,
                                        !.position = r.position + k,
                                        !.out = r.out \o d.out]]
        /\ UNCHANGED <<algorithm, seed, cleaner, encryptorCache, stored, started,
                       overlapped>>
        /\ UNCHANGED cipherVars
        /\ UNCHANGED frontVars

\* decryptReader.Read returning io.EOF: the position has reached endPos, or
\* the source is exhausted.
ReaderEOF(s) ==
    LET r == slots[s]
    IN  /\ r.pc = "read"
        /\ \/ r.endPos > 0 /\ r.position >= r.endPos
           \/ r.srcPos = Len(r.src)
        /\ slots' = [slots EXCEPT ![s] = [r EXCEPT !.pc = "done"]]
        /\ UNCHANGED <<algorithm, seed, cleaner, heap, encryptorCache, stored,
                       started, overlapped>>
        /\ UNCHANGED cipherVars
        /\ UNCHANGED frontVars

\* req.Body.Read fails before the body has ended (the client is gone, the
\* connection is reset): the goroutine logs the error and returns, and the
\* deferred pw.Close() ends the pipe without an error.  The transport that
\* sends a body of a declared length finds it short and fails, which the
\* reverse proxy answers with a 502; a body of undeclared length ends for
\* upstream here, upstream stores what it received and its answer is
\* returned.
UploadBodyError(cl, sent) == "http: ContentLength with Body length"

UploadBodyFails(s) ==
    LET r == slots[s]
    IN  /\ r.pc = "upload"
        /\ r.sent < r.size
        /\ IF r.upCL = -1
           THEN /\ stored' = [stored EXCEPT ![r.path] =
                                [present |-> TRUE, bytes |-> r.pipe,
                                 plain |-> SubSeq(r.plain, 1, r.sent),
                                 enc |-> TRUE, ct |-> r.ct]]
                /\ slots' = [slots EXCEPT ![s] =
                               [r EXCEPT !.pc = "done", !.bodyErr = TRUE,
                                         !.logged = "read request body",
                                         !.status = 201]]
           ELSE /\ slots' = [slots EXCEPT ![s] =
                               [r EXCEPT
                                  !.pc = "done", !.bodyErr = TRUE,
                                  !.logged = "read request body",
                                  !.err = UploadBodyError(r.upCL, r.sent),
                                  !.status =
                                     errorHandler(
                                        UploadBodyError(r.upCL,
                                                        r.sent)).status]]
                /\ UNCHANGED stored
        /\ UNCHANGED <<algorithm, seed, cleaner, heap, encryptorCache, started,
                       overlapped>>
        /\ UNCHANGED cipherVars
        /\ UNCHANGED frontVars

\* ---------------------------------------------------- startEncryptorCleanup

\* The goroutine takes a tick of the hourly ticker in its select: the
\* entries are counted, and the cache is replaced by an empty one when
\* there are more than the limit.  Requests in flight keep the instance
\* they hold; swapped marks the ones in flight when the cache is replaced.
\* The replacement is taken as one step.  After Close the stop channel is
\* ready as well and select takes either case.
CleanupTick ==
    /\ cleaner.running
    /\ encryptorCache' =
          IF Cardinality(DOMAIN encryptorCache) > CacheLimit THEN <<>>
          ELSE encryptorCache
    /\ slots' =
          IF Cardinality(DOMAIN encryptorCache) > CacheLimit
          THEN [s \in Slots |->
                  IF InFlight(slots[s])
                  THEN [slots[s] EXCEPT !.swapped = TRUE] ELSE slots[s]]
          ELSE slots
    /\ cleaner' = [cleaner EXCEPT !.late = cleaner.late \/ cleaner.closed]
    /\ UNCHANGED <<algorithm, seed, heap, stored, started, overlapped>>
    /\ UNCHANGED cipherVars
    /\ UNCHANGED frontVars

\* Close: the stop channel is closed.
Close ==
    /\ ~cleaner.closed
    /\ cleaner' = [cleaner EXCEPT !.closed = TRUE]
    /\ UNCHANGED <<algorithm, seed>>
    /\ UNCHANGED cipherVars
    /\ UNCHANGED proxyVars
    /\ UNCHANGED frontVars

\* The goroutine takes the closed stop channel in its select: the ticker is
\* stopped and the goroutine returns.
CleanupStop ==
    /\ cleaner.running
    /\ cleaner.closed
    /\ cleaner' = [cleaner EXCEPT !.running = FALSE]
    /\ UNCHANGED <<algorithm, seed>>
    /\ UNCHANGED cipherVars
    /\ UNCHANGED proxyVars
    /\ UNCHANGED frontVars

\* ------------------------------------------------- proxy specification

Init ==
    /\ algorithm \in Algorithms
    /\ seed = 0
    /\ cipA = NewFlowEnc(seed, algorithm, 0)
    /\ cipB = NewFlowEnc(seed, algorithm, 0)
    /\ fed = 0
    /\ probe = NoProbe
    /\ IdleProxy
    /\ IdleFront

Next ==
    \/ \E s \in Slots, u \in UploadInputs :
          StartUpload(s, u.path, u.n, u.n, u.ct)
    \/ \E s \in Slots, k \in 1..ChunkSize : UploadChunk(s, k)
    \/ \E s \in Slots : UploadFinish(s)
    \/ \E s \in Slots, req \in DownloadInputs :
          \E redir \in RedirectsFor(req), resp \in Answers(req.path, req.rng) :
             StartDownload(s, req, redir, resp)
    \/ \E s \in Slots, k \in 1..MaxN : ReaderRead(s, k)
    \/ \E s \in Slots : ReaderEOF(s)
    \/ CleanupTick

Spec == Init /\ [][Next]_vars

\* ------------------------------------- the cache clean-up and its end

\* Uploads of files of every size while the clean-up ticks and the handler
\* is closed.
NextCleanup ==
    \/ \E s \in Slots, n \in 1..MaxN :
          StartUpload(s, PathTxt, n, n, "text/plain")
    \/ \E s \in Slots, k \in 1..ChunkSize : UploadChunk(s, k)
    \/ \E s \in Slots : UploadFinish(s)
    \/ CleanupTick
    \/ Close
    \/ CleanupStop

SpecCleanup == Init /\ [][NextCleanup]_vars

\* ------------------------------------------- uploads whose body breaks

\* Uploads of files with a declared length or with chunked transfer
\* encoding, whose body may fail at any point before its end.
NextBody ==
    \/ \E s \in Slots, p \in Paths, n \in 1..MaxN :
          \E cl \in {n, -1} : StartUpload(s, p, n, cl, "text/plain")
    \/ \E s \in Slots, k \in 1..ChunkSize : UploadChunk(s, k)
    \/ \E s \in Slots : UploadFinish(s)
    \/ \E s \in Slots : UploadBodyFails(s)

SpecBody == Init /\ [][NextBody]_vars

\* ------------------------------ upstream with malformed Content-Range

\* The proxy in front of an upstream whose Content-Range values are not
\* well formed: files are uploaded, then downloaded whole or by range.
NextRange ==
    \/ \E s \in Slots, n \in 1..MaxN :
          StartUpload(s, PathTxt, n, n, "text/plain")
    \/ \E s \in Slots, k \in 1..ChunkSize : UploadChunk(s, k)
    \/ \E s \in Slots : UploadFinish(s)
    \/ \E s \in Slots, rng \in ClientRanges :
          \E resp \in MalformedAnswers(PathTxt, rng) :
             StartDownload(s, [path |-> PathTxt, rng |-> rng, auth |-> TRUE],
                           NoRedirect, resp)
    \/ \E s \in Slots, k \in 1..MaxN : ReaderRead(s, k)
    \/ \E s \in Slots : ReaderEOF(s)

SpecRange == Init /\ [][NextRange]_vars

\* Downloads with a Range header that upstream answers with the whole
\* object, status 200 and no Content-Range, for an object of WholeN bytes.
WholeRanges ==
    UNION {{[kind |-> "closed", start |-> a, end |-> b] :
               b \in a..(WholeN - 1)} : a \in 0..(WholeN - 1)}
    \cup {[kind |-> "open", start |-> a, end |-> 0] : a \in 0..(WholeN - 1)}

NextWhole ==
    \/ \E s \in Slots : StartUpload(s, PathTxt, WholeN, WholeN, "text/plain")
    \/ \E s \in Slots, k \in 1..ChunkSize : UploadChunk(s, k)
    \/ \E s \in Slots : UploadFinish(s)
    \/ \E s \in Slots, rng \in WholeRanges :
          /\ stored[PathTxt].present
          /\ StartDownload(s, [path |-> PathTxt, rng |-> rng, auth |-> TRUE],
                           NoRedirect,
                           Response(200, NoCR, stored[PathTxt].ct,
                                    stored[PathTxt].bytes, ""))
    \/ \E s \in Slots, k \in 1..WholeN : ReaderRead(s, k)
    \/ \E s \in Slots : ReaderEOF(s)

SpecWhole == Init /\ [][NextWhole]_vars

\* ------------------------------------------------ configuration probes

\* The configurations Validate is asked about: each required value given
\* or not, registered and other algorithm names, chunk sizes around zero.
ValidateInputs ==
    {[loadDefaults EXCEPT
         !.BackendURL = b, !.Password = p, !.Algorithm = a, !.ChunkSize = n,
         !.EnableAuth = e, !.AuthUser = au, !.AuthPass = ap] :
        b \in BOOLEAN, p \in BOOLEAN,
        a \in {"mix", "rc4", "aesctr", "invalid_algorithm", ""},
        n \in {-1, 0, 1, 4096, 8192},
        e \in BOOLEAN, au \in {<<>>, <<"u">>}, ap \in {<<>>, <<"w">>}}

\* The command lines and files the logger is created from: the backend
\* given on the command line or not, --debug given or not; a file with or
\* without the password, with debug: true or not, with each log_level.
LogLevelTexts ==
    {"unset", "", "trace", "debug", "info", "warn", "Warning", "error",
     "fatal", "verbose"}

LogFlags ==
    {[NoFlags EXCEPT !.backendURL = b, !.password = b, !.debug = d] :
        b \in BOOLEAN, d \in BOOLEAN}

LogFiles ==
    {NoFile}
    \cup {[NoFile EXCEPT !.kind = k, !.logLevel = l, !.debug = d] :
            k \in {"complete", "no password"}, l \in LogLevelTexts,
            d \in BOOLEAN}

InitConfig ==
    /\ algorithm = "aesctr"
    /\ seed = 0
    /\ cipA = NewFlowEnc(seed, algorithm, 0)
    /\ cipB = NewFlowEnc(seed, algorithm, 0)
    /\ fed = 0
    /\ probe = NoProbe
    /\ IdleProxy
    /\ IdleFront

\* One call of c.Validate(): its error, and the configuration after it.
ValidateProbe(c) ==
    /\ probe = NoProbe
    /\ probe' = [kind |-> "validate", cfg |-> c, err |-> Validate(c),
                 after |-> c]
    /\ UNCHANGED <<algorithm, seed, cleaner, cipA, cipB, fed>>
    /\ UNCHANGED proxyVars
    /\ UNCHANGED frontVars

NextValidate == \E c \in ValidateInputs : ValidateProbe(c)

SpecValidate == InitConfig /\ [][NextValidate]_vars

\* main from the command line to utils.NewLogger, in a run that passes
\* Validate: the level the logger gets.
CreateLogger(flags, file) ==
    /\ probe = NoProbe
    /\ MainConfig(flags, file).state = "running"
    /\ probe' = [kind |-> "logger", flags |-> flags, file |-> file,
                 level |-> MainLogLevel(flags, file)]
    /\ UNCHANGED <<algorithm, seed, cleaner, cipA, cipB, fed>>
    /\ UNCHANGED proxyVars
    /\ UNCHANGED frontVars

NextLogger == \E flags \in LogFlags, file \in LogFiles : CreateLogger(flags, file)

SpecLogger == InitConfig /\ [][NextLogger]_vars

\* ------------------------------------------------ the redirect chain
\* The requests that handleDownload and its http.Client send after a 302,
\* one by one.  probe.hdrAuth is the Authorization of redirectReq.Header,
\* which the CheckRedirect closure reads; probe.sent lists the requests
\* sent: whether the target URL has a query string and whether the request
\* carries Authorization.

\* The Authorization of a later hop: CheckRedirect adds every header of
\* redirectReq to the request the client prepared, which has the header
\* (kept) or not.
HopAuth(hdrAuth, kept) == kept \/ hdrAuth

\* The first follow-up request, to the Location of the 302.
FollowUp(auth, loc) ==
    /\ probe = NoProbe
    /\ probe' = [kind |-> "chain", auth |-> auth,
                 hdrAuth |-> FollowUpAuth(auth, loc),
                 sent |-> <<[query |-> HasQuery(loc),
                             auth |-> FollowUpAuth(auth, loc)]>>]
    /\ UNCHANGED <<algorithm, seed, cleaner, cipA, cipB, fed>>
    /\ UNCHANGED proxyVars
    /\ UNCHANGED frontVars

\* The answer was another 302 with Location loc and CheckRedirect lets it
\* pass.  The client prepares the next request with the headers of its
\* first one, leaving Authorization out when the host changes (keeps), and
\* CheckRedirect adds the headers of redirectReq.
NextHop(loc, keeps) ==
    /\ probe.kind = "chain"
    /\ ~CheckRedirect(Len(probe.sent))
    /\ probe' = [probe EXCEPT
                   !.sent = Append(@, [query |-> HasQuery(loc),
                                       auth |-> HopAuth(probe.hdrAuth,
                                                        keeps /\ probe.hdrAuth)])]
    /\ UNCHANGED <<algorithm, seed, cleaner, cipA, cipB, fed>>
    /\ UNCHANGED proxyVars
    /\ UNCHANGED frontVars

NextChain ==
    \/ \E auth \in BOOLEAN, loc \in Locations \ {"bad"} : FollowUp(auth, loc)
    \/ \E loc \in Locations \ {"bad"}, keeps \in BOOLEAN : NextHop(loc, keeps)

SpecChain == InitConfig /\ [][NextChain]_vars

\* ------------------------------------------------ the two gates
\* The decisions of the upload gate and of the download gate for one
\* object: the path, the Content-Type of the PUT, and the Content-Type and
\* Content-Disposition of the answer to a later GET.

\* strings.Contains(contentDisposition, "attachment") over the values of
\* the model.
ContainsAttachment(contentDisposition) ==
    contentDisposition \in {"attachment", "attachment; filename=b"}

\* The download gate without the path.
DownloadGateNoPath(path, contentType, contentDisposition) ==
    isFileContentType(contentType) \/ ContainsAttachment(contentDisposition)

\* The decrypting branch is taken unless the Content-Type is a listed
\* non-file type, the path has no known extension and Content-Disposition
\* does not contain "attachment".
DownloadGate(path, contentType, contentDisposition) ==
    DownloadDecrypts(path, contentType)
       \/ ContainsAttachment(contentDisposition)

PathUpper == [name |-> "/a", ext |-> ".TXT"]
GatePaths == {PathTxt, PathBare, PathUpper}
GateTypes ==
    {"", "text/plain", "application/json", "application/json; charset=utf-8",
     "application/octet-stream", "application/x-custom"}
GateDispositions == {"", "inline", "attachment; filename=b", "Attachment"}

GateProbe(path, upType, downType, disposition) ==
    /\ probe = NoProbe
    /\ probe' = [kind |-> "gate", path |-> path, upType |-> upType,
                 downType |-> downType, disposition |-> disposition,
                 up |-> UploadEncrypts(path, upType),
                 down |-> DownloadGate(path, downType, disposition)]
    /\ UNCHANGED <<algorithm, seed, cleaner, cipA, cipB, fed>>
    /\ UNCHANGED proxyVars
    /\ UNCHANGED frontVars

NextGate ==
    \E path \in GatePaths, upType \in GateTypes, downType \in GateTypes,
       disposition \in GateDispositions :
          GateProbe(path, upType, downType, disposition)

SpecGate == InitConfig /\ [][NextGate]_vars

\* ------------------------------------- a handler without a cipher factory

\* NewProxyHandler takes the algorithm name as it is given; these names
\* have no registered factory.
UnregisteredAlgorithms == {"des", ""}

InitFallback ==
    /\ algorithm \in UnregisteredAlgorithms
    /\ seed = 0
    /\ cipA = NewFlowEnc(seed, "aesctr", 0)
    /\ cipB = NewFlowEnc(seed, "aesctr", 0)
    /\ fed = 0
    /\ probe = NoProbe
    /\ IdleProxy
    /\ IdleFront

NextFallback ==
    \/ \E s \in Slots, u \in UploadInputs :
          StartUpload(s, u.path, u.n, u.n, u.ct)
    \/ \E s \in Slots, req \in DownloadInputs :
          \E redir \in RedirectsFor(req), resp \in Answers(req.path, req.rng) :
             StartDownload(s, req, redir, resp)

SpecFallback == InitFallback /\ [][NextFallback]_vars

\* ------------------------------------------------- front-end specification

\* The backend URL of the front-end runs.
FrontBackend ==
    [scheme |-> "http", host |-> "dav.local", path |-> <<"/", "d">>,
     query |-> <<>>]

\* Methods clients send: the twelve of the switch, one in lower case and
\* two that are not WebDAV methods the handler knows.
ClientMethods == ProxiedMethods \cup {"get", "OPTIONS", "PATCH"}

\* Authorization headers clients send to a proxy configured as c: none,
\* the configured credentials, a wrong password, a wrong user, the backend
\* credentials, and a value that is not Basic.
ClientAuthorizations(c) ==
    {NoHeader,
     BasicValue(c.AuthUser, c.AuthPass),
     BasicValue(c.AuthUser, <<"x">>),
     BasicValue(<<"x">>, c.AuthPass),
     BasicValue(c.BackendUser, c.BackendPass),
     [scheme |-> "Bearer", text |-> c.AuthUser \o <<":">> \o c.AuthPass]}

\* Answers of upstream whose status the transport hands on as it is for
\* every method (neither 200 nor 206 nor 302), with or without a challenge.
\* The body is upstream's.
UpstreamAnswers ==
    {[status |-> st, www |-> w, body |-> "upstream"] :
        st \in {204, 401, 404}, w \in {"", "Basic realm=\"backend\""}}

\* Errors the transport returns.
TransportErrors ==
    {"dial tcp 10.0.0.1:80: connect: connection refused",
     "dial tcp 10.0.0.1:4010: connect: connection refused",
     "context deadline exceeded",
     "too many redirects"}

\* A response that is relayed with its headers as upstream sent them.
modifyResponseKeep(resp) == resp

\* modifyResponse: the WWW-Authenticate header is deleted.
modifyResponse(resp) == [resp EXCEPT !.www = ""]

\* http.Error: a response written by the proxy itself.
HttpError(body, status) == [status |-> status, www |-> "", body |-> body]

InitFront ==
    /\ algorithm = "aesctr"
    /\ seed = 0
    /\ cipA = NewFlowEnc(seed, algorithm, 0)
    /\ cipB = NewFlowEnc(seed, algorithm, 0)
    /\ fed = 0
    /\ probe = NoProbe
    /\ IdleProxy
    /\ boot \in [flags : Flags, file : Files]
    /\ cfg = NoConfig
    /\ front = IdleRequest
    /\ dirProbe = NoDirProbe

\* main, from the parsed flags to the handlers.
Main ==
    /\ cfg.state = "start"
    /\ cfg' = MainConfig(boot.flags, boot.file)
    /\ UNCHANGED <<algorithm, seed, cleaner, boot, front, dirProbe>>
    /\ UNCHANGED cipherVars
    /\ UNCHANGED proxyVars

\* The server calls the handler main built: the middleware when it is
\* installed, then ProxyHandler.ServeHTTP, then the director of the
\* reverse proxy, which sends the request on.  The handlers keep nothing
\* from one request to the next, and a run follows one request.
Accept(method, authorization) ==
    LET in == Inbound(<<"/", "x">>, <<>>, authorization)
        r == [IdleRequest EXCEPT !.method = method, !.in = in]
    IN  /\ cfg.state = "running"
        /\ front.pc = "idle"
        /\ front' =
              IF /\ MiddlewareInstalled(cfg)
                 /\ ~checkAuth(ProxyAuthConfig(cfg), authorization)
              THEN [r EXCEPT
                      !.pc = "done", !.by = "middleware",
                      !.resp = [HttpError("Unauthorized", 401) EXCEPT
                                   !.www = "Basic realm=\"WebDAV Proxy\""]]
              ELSE IF ServeHTTP(method) = "405"
              THEN [r EXCEPT
                      !.pc = "done", !.by = "handler",
                      !.resp = HttpError("Method not allowed", 405)]
              ELSE [r EXCEPT
                      !.pc = "upstream", !.sent = 1,
                      !.fwd = director(FrontBackend,
                                       BackendAuthConfig(cfg), in)]
        /\ UNCHANGED <<algorithm, seed, cleaner, boot, cfg, dirProbe>>
        /\ UNCHANGED cipherVars
        /\ UNCHANGED proxyVars

\* The transport returns upstream's answer; the reverse proxy runs
\* modifyResponse and writes the response to the client.
UpstreamResponds(up) ==
    /\ front.pc = "upstream"
    /\ front' = [front EXCEPT !.pc = "done", !.by = "relay", !.up = up,
                              !.resp = modifyResponse(up)]
    /\ UNCHANGED <<algorithm, seed, cleaner, boot, cfg, dirProbe>>
    /\ UNCHANGED cipherVars
    /\ UNCHANGED proxyVars

\* The transport returns an error; the reverse proxy calls errorHandler.
TransportFails(err) ==
    /\ front.pc = "upstream"
    /\ front' = [front EXCEPT
                    !.pc = "done", !.by = "errorHandler", !.err = err,
                    !.resp = HttpError(errorHandler(err).body,
                                       errorHandler(err).status)]
    /\ UNCHANGED <<algorithm, seed, cleaner, boot, cfg, dirProbe>>
    /\ UNCHANGED cipherVars
    /\ UNCHANGED proxyVars

NextFront ==
    \/ Main
    \/ \E m \in ClientMethods, a \in ClientAuthorizations(cfg) : Accept(m, a)
    \/ \E up \in UpstreamAnswers : UpstreamResponds(up)
    \/ \E err \in TransportErrors : TransportFails(err)

SpecFront == InitFront /\ [][NextFront]_vars

\* ------------------------------------------------ director specification

\* Backend URLs: no base path, one without and one with a closing slash;
\* without and with a base query.
DirBackends ==
    {[scheme |-> "http", host |-> "dav.local", path |-> p, query |-> q] :
        p \in {<<>>, <<"/", "d">>, <<"/", "d", "/">>},
        q \in {<<>>, <<"k">>}}

DirBackendAuths ==
    {[nil |-> TRUE, Username |-> <<>>, Password |-> <<>>],
     [nil |-> FALSE, Username |-> <<"b">>, Password |-> <<"s">>]}

DirRequests ==
    {Inbound(p, q, a) :
        p \in {<<"/">>, <<"/", "x">>, <<"/", "d", "/", "x">>,
               <<"/", "d", "o", "/", "x">>},
        q \in {<<>>, <<"a">>},
        a \in {NoHeader, BasicValue(<<"u">>, <<"p">>)}}

InitDirector ==
    /\ algorithm = "aesctr"
    /\ seed = 0
    /\ cipA = NewFlowEnc(seed, algorithm, 0)
    /\ cipB = NewFlowEnc(seed, algorithm, 0)
    /\ fed = 0
    /\ probe = NoProbe
    /\ IdleProxy
    /\ boot = [flags |-> NoFlags, file |-> NoFile]
    /\ cfg = NoConfig
    /\ front = IdleRequest
    /\ \E b \in DirBackends, a \in DirBackendAuths, r \in DirRequests :
          dirProbe = [NoDirProbe EXCEPT
                         !.backend = b, !.backendAuth = a, !.in = r]

\* The director is applied to the request, then to its own result.
ApplyDirector ==
    /\ dirProbe.n < 2
    /\ dirProbe' =
          IF dirProbe.n = 0
          THEN [dirProbe EXCEPT
                   !.n = 1,
                   !.once = director(dirProbe.backend, dirProbe.backendAuth,
                                     dirProbe.in)]
          ELSE [dirProbe EXCEPT
                   !.n = 2,
                   !.twice = director(dirProbe.backend, dirProbe.backendAuth,
                                      dirProbe.once)]
    /\ UNCHANGED <<algorithm, seed, cleaner, boot, cfg, front>>
    /\ UNCHANGED cipherVars
    /\ UNCHANGED proxyVars

NextDirector == ApplyDirector

SpecDirector == InitDirector /\ [][NextDirector]_vars

\* ------------------------------------------------- properties, mix

\* The slot of entry i of an encode table.
MixSlot(encode, i) == Xor(encode[i], i) % MIX_LEN

\* C31: the tables of a mix instance are such that the slot map
\* i -> (E[i] XOR i) mod 32 is a bijection on 0..31 and, for every byte b,
\* D[(b XOR E[b mod 32]) mod 32] = E[b mod 32]; DecryptData gives back what
\* EncryptData was given, SetPosition leaves the instance as it is, and
\* the output for a buffer is the byte-wise substitution, whatever was
\* processed before it and from whatever position.
MixTablesInvert ==
    algorithm = "mix" =>
       /\ \A i, k \in 0..(MIX_LEN - 1) :
             MixSlot(cipA.encode, i) = MixSlot(cipA.encode, k) => i = k
       /\ \A b \in 0..255 :
             cipA.decode[Xor(b, cipA.encode[b % MIX_LEN]) % MIX_LEN]
                = cipA.encode[b % MIX_LEN]
       /\ SetPosition(cipA, fed) = cipA
       /\ probe.kind = "trip" => probe.b = probe.buf
       /\ probe.kind = "seek" =>
             /\ probe.a = probe.b
             /\ probe.a = MixSubst(cipA.encode, probe.buf)

\* A round trip at a position past 0 with tables that the collision branch
\* rewrote.
MixTablesInvertWitness ==
    /\ algorithm = "mix"
    /\ cipA.encode # MixHashOf(seed)
    /\ probe.kind = "trip" /\ probe.p > 0 /\ Len(probe.buf) > 1
    /\ probe.b = probe.buf /\ probe.a # probe.buf

\* ------------------------------------------------ properties, the proxy

\* The ciphertext of body under a newly constructed cipher for its size:
\* byte k is encrypted with the keystream of position k.
Ciphertext(body) ==
    EncryptData(NewFlowEnc(seed, algorithm, Len(body)), body).out

\* C1: proxy round trip.  With the requests served one after another, an
\* unranged GET of an object that was uploaded encrypted, answered by
\* upstream with 200 and Content-Length N, delivers the uploaded plaintext,
\* and upstream stored N bytes.
ProxyRoundTrip ==
    \A s \in Slots :
        LET r == slots[s]
        IN  (/\ ~overlapped
             /\ r.pc = "done" /\ r.kind = "get" /\ r.rng.kind = "none"
             /\ r.upStatus = 200 /\ r.objEnc
             /\ r.upCL = Len(r.plain)) =>
                /\ Len(r.objBytes) = Len(r.plain)
                /\ r.out = r.plain

\* A request holds a cipher instance while it encrypts or decrypts a body.
HoldsCipher(r) == r.pc \in {"upload", "read"}

\* C2: no two requests that are served at the same time hold the same
\* cipher instance.
NoSharedCipher ==
    \A s, t \in Slots :
        (s # t /\ HoldsCipher(slots[s]) /\ HoldsCipher(slots[t])) =>
            slots[s].enc # slots[t].enc

\* C3: an encrypted upload starts at position 0.  What has been written to
\* upstream is the ciphertext of the body read so far under the keystream
\* of positions 0, 1, ..., whatever the cached instance did before.
UploadStartsAtZero ==
    \A s \in Slots :
        LET r == slots[s]
        IN  (~overlapped /\ r.kind = "put" /\ r.objEnc) =>
                r.pipe = SubSeq(Ciphertext(r.plain), 1, r.sent)

\* C4: ranged download body.  A GET with Range: bytes=a-b that upstream
\* answers with 206, Content-Range a-b/N and bytes a..b of the ciphertext
\* delivers plaintext bytes a..b, however the upstream body is split.
RangedDownloadBody ==
    \A s \in Slots :
        LET r == slots[s]
        IN  (/\ ~overlapped
             /\ r.pc = "done" /\ r.kind = "get" /\ r.rng.kind = "closed"
             /\ r.upStatus = 206 /\ r.objEnc
             /\ r.objBytes = Ciphertext(r.plain)
             /\ r.upCR = CR(r.rng.start, r.rng.end, Len(r.plain))) =>
                r.out = SubSeq(r.plain, r.rng.start + 1, r.rng.end + 1)

\* C5: range header rewrite.  A decrypted response whose upstream
\* Content-Range is a-b/N goes out with 206, Content-Length b - a + 1, the
\* same Content-Range and Accept-Ranges: bytes; a non-partial one goes out
\* with Content-Length N.
RangeHeaderRewrite ==
    \A s \in Slots :
        LET r == slots[s]
        IN  (r.kind = "get" /\ r.decrypting) =>
                /\ r.upCR.kind = "range" =>
                      /\ r.status = 206
                      /\ r.hdrCL = r.upCR.end - r.upCR.start + 1
                      /\ r.hdrCR = r.upCR
                      /\ r.hdrAR
                /\ (r.upCR.kind = "none" /\ r.rng.kind = "none") =>
                      r.hdrCL = r.upCL

\* The gate and the decryption as handleDownload applies them to a final
\* answer of upstream.
GateApplied(r) ==
    (r.pc \in {"read", "done"} /\ r.upStatus \in {200, 206}) =>
        r.decrypting = DownloadDecrypts(r.path, r.upCT)

\* C9 as stated: after a 302 a follow-up GET with the forwarded headers is
\* sent, it has no Authorization header if and only if the Location has a
\* query string, and the redirected response is gated and decrypted.
RedirectStripsAuthIff ==
    \A s \in Slots :
        LET r == slots[s]
        IN  r.first = 302 =>
                /\ r.fuSent /\ r.fuMethod = "GET" /\ r.fuRng = r.rng
                /\ ~r.fuAuth <=> HasQuery(r.loc)
                /\ GateApplied(r)

\* C9, amended: after a 302 whose Location parses, a follow-up GET with the
\* forwarded headers is sent; it carries the forwarded request's
\* Authorization unless the Location has a query string, and never
\* otherwise, so that for a forwarded request with Authorization the header
\* is absent if and only if the Location has a query string; the redirected
\* response is gated and decrypted.  A 302 whose Location does not parse is
\* returned without a follow-up.
RedirectStripsAuth ==
    \A s \in Slots :
        LET r == slots[s]
        IN  /\ (r.first = 302 /\ r.loc # "bad") =>
                  /\ r.fuSent /\ r.fuMethod = "GET" /\ r.fuRng = r.rng
                  /\ r.fuAuth <=> (r.auth /\ ~HasQuery(r.loc))
                  /\ r.auth => (~r.fuAuth <=> HasQuery(r.loc))
                  /\ GateApplied(r)
            /\ (r.first = 302 /\ r.loc = "bad") =>
                  ~r.fuSent /\ r.pc = "done" /\ r.status = 302

\* A GET with Authorization that was redirected to a URL with a query
\* string, followed without the header, and whose redirected body was
\* decrypted to the plaintext of the object.
RedirectStripsAuthWitness ==
    \E s \in Slots :
        LET r == slots[s]
        IN  /\ r.first = 302 /\ r.loc = "query" /\ r.auth /\ ~r.fuAuth
            /\ r.pc = "done" /\ r.decrypting /\ r.objEnc
            /\ Len(r.plain) = MaxN /\ r.out = r.plain

\* C10: redirect following is bounded.  No download follows more than 10
\* redirects; when upstream answers with 302 more often than that, the
\* request ends with the error and the client gets 502; otherwise every
\* redirect is followed.
RedirectsBounded ==
    \A s \in Slots :
        LET r == slots[s]
        IN  /\ r.hops <= MAX_REDIRECTS
            /\ (r.fuSent /\ r.n302 > MAX_REDIRECTS) =>
                  /\ r.pc = "done" /\ r.err = "too many redirects"
                  /\ r.status = 502 /\ r.hops = MAX_REDIRECTS
                  /\ r.out = <<>>
            /\ (r.fuSent /\ r.n302 <= MAX_REDIRECTS) =>
                  r.err = "" /\ r.hops = r.n302

\* A download that ended with 502 after 10 followed redirects.
RedirectsBoundedWitness ==
    \E s \in Slots :
        LET r == slots[s]
        IN  /\ r.pc = "done" /\ r.err = "too many redirects"
            /\ r.status = 502 /\ r.hops = MAX_REDIRECTS
            /\ r.n302 = MAX_REDIRECTS + 1

\* C11: the body of a PUT or POST reaches upstream unchanged exactly when
\* the request has no body, or its Content-Type starts with a listed
\* non-file type and its path ends in no known extension; every other
\* body goes through the cipher.
UploadGate ==
    \A s \in Slots :
        LET r == slots[s]
            forwards ==
                \/ r.size = 0
                \/ /\ \E t \in NonFileTypes : t \in PrefixesOf(r.ct)
                   /\ ToLower(r.path.ext) \notin FileExtensions
        IN  r.kind = "put" =>
                /\ forwards <=> (r.enc = 0)
                /\ forwards => (r.pc = "done" /\ ~r.objEnc /\ r.pipe = r.plain)
                /\ ~forwards => r.objEnc

UploadGateWitness ==
    \E s \in Slots :
        /\ slots[s].kind = "put"
        /\ slots[s].pc = "done"
        /\ slots[s].ct = ""
        /\ slots[s].enc # 0
        /\ slots[s].pipe # slots[s].plain

\* ------------------------------------------------ properties, the front end

\* C12: a request that reaches the proxy handler with a method outside the
\* twelve listed ones is answered by the proxy with 405 and nothing is sent
\* upstream; with a listed method it is handed to the reverse proxy, which
\* sends it on.
MethodDispatch ==
    (front.pc # "idle" /\ front.by # "middleware") =>
        IF front.method \in ProxiedMethods
        THEN /\ front.sent = 1
             /\ front.by \in {"", "relay", "errorHandler"}
        ELSE /\ front.pc = "done"
             /\ front.by = "handler"
             /\ front.resp.status = 405
             /\ front.sent = 0

MethodDispatchWitness ==
    /\ front.pc = "done"
    /\ front.method = "get"
    /\ front.resp.status = 405
    /\ front.sent = 0

\* C13: with front-side authentication enabled, a request of any method
\* whose Authorization is not the Basic value of the configured user and
\* password gets 401 with the challenge of the proxy and nothing is sent
\* upstream, and a request with that value goes on to the proxy handler;
\* with authentication disabled no middleware is installed and every
\* request goes on.
FrontAuth ==
    (cfg.state = "running" /\ front.pc # "idle") =>
        IF cfg.EnableAuth
        THEN IF front.in.auth = BasicValue(cfg.AuthUser, cfg.AuthPass)
             THEN front.by # "middleware"
             ELSE /\ front.pc = "done"
                  /\ front.by = "middleware"
                  /\ front.resp.status = 401
                  /\ front.resp.www = "Basic realm=\"WebDAV Proxy\""
                  /\ front.sent = 0
        ELSE ~MiddlewareInstalled(cfg) /\ front.by # "middleware"

FrontAuthWitness ==
    /\ cfg.EnableAuth
    /\ front.pc = "done"
    /\ front.method = "PROPFIND"
    /\ front.in.auth = BasicValue(cfg.AuthUser, <<"x">>)
    /\ front.resp.status = 401
    /\ front.sent = 0

\* C14: main enables front-side authentication with the proxy user and
\* password when both are supplied, on the command line or in the
\* configuration; otherwise with the backend user and password when both
\* are supplied; otherwise it disables it.
AuthResolution ==
    LET Supplied(flag, value) == IF flag # <<>> THEN flag ELSE value
        au == Supplied(boot.flags.authUser, boot.file.authUser)
        ap == Supplied(boot.flags.authPass, boot.file.authPass)
        bu == Supplied(boot.flags.backendUser, boot.file.backendUser)
        bp == Supplied(boot.flags.backendPass, boot.file.backendPass)
    IN  cfg.state = "running" =>
            IF au # <<>> /\ ap # <<>>
            THEN cfg.EnableAuth /\ cfg.AuthUser = au /\ cfg.AuthPass = ap
            ELSE IF bu # <<>> /\ bp # <<>>
            THEN cfg.EnableAuth /\ cfg.AuthUser = bu /\ cfg.AuthPass = bp
            ELSE ~cfg.EnableAuth

\* C15: with backend credentials configured, the request the director sends
\* on carries the Basic value of the backend user and password as its
\* Authorization, whatever Authorization the client sent.
BackendAuthorization ==
    (front.sent = 1 /\ (cfg.BackendUser # <<>> \/ cfg.BackendPass # <<>>)) =>
        front.fwd.auth = BasicValue(cfg.BackendUser, cfg.BackendPass)

BackendAuthorizationWitness ==
    /\ front.sent = 1
    /\ cfg.BackendUser # <<>>
    /\ front.in.auth # NoHeader
    /\ front.in.auth # front.fwd.auth
    /\ front.fwd.auth = BasicValue(cfg.BackendUser, cfg.BackendPass)

\* C16: a transport error is answered with 502; the body is 'Backend
\* authentication failed' when the text of the error contains 401 and
\* 'Gateway error' when it does not.
ErrorMapping ==
    front.by = "errorHandler" =>
        /\ front.resp.status = 502
        /\ front.resp.body = IF Contains401(front.err)
                             THEN "Backend authentication failed"
                             ELSE "Gateway error"

ErrorMappingWitness ==
    /\ front.by = "errorHandler"
    /\ Contains401(front.err)
    /\ front.resp.body = "Backend authentication failed"

\* C17: when upstream answers the forwarded request with 401, the client
\* gets 502 'Backend authentication failed'.
Upstream401Mapped ==
    (front.pc = "done" /\ front.up.status = 401) =>
        /\ front.resp.status = 502
        /\ front.resp.body = "Backend authentication failed"

\* C18: a response relayed from upstream carries no WWW-Authenticate,
\* whatever its status; a response with WWW-Authenticate is the 401 of the
\* front-side middleware.
NoUpstreamChallenge ==
    front.pc = "done" =>
        /\ front.by = "relay" => front.resp.www = ""
        /\ front.resp.www # "" =>
              (front.by = "middleware" /\ front.resp.status = 401)

NoUpstreamChallengeWitness ==
    /\ front.pc = "done"
    /\ front.by = "relay"
    /\ front.up.status = 401
    /\ front.up.www # ""
    /\ front.resp.www = ""

\* ------------------------------------------------ properties, the director

\* C19: the director applied to its own result gives that result again:
\* scheme, host, Host header, path, query and Authorization.
DirectorIdempotent ==
    dirProbe.n = 2 => dirProbe.twice = dirProbe.once

\* C19 as amended: the director applied to its own result leaves scheme,
\* host, Host header, path and Authorization as they are; the query stays
\* when the backend URL has no base query, and otherwise gets the base query
\* and an ampersand in front once more.
DirectorIdempotentButQuery ==
    dirProbe.n = 2 =>
        /\ [dirProbe.twice EXCEPT !.query = <<>>]
              = [dirProbe.once EXCEPT !.query = <<>>]
        /\ dirProbe.twice.query =
              IF dirProbe.backend.query = <<>> THEN dirProbe.once.query
              ELSE dirProbe.backend.query \o <<"&">> \o dirProbe.once.query

DirectorIdempotentButQueryWitness ==
    /\ dirProbe.n = 2
    /\ dirProbe.backend.path = <<"/", "d", "/">>
    /\ dirProbe.in.path = <<"/", "x">>
    /\ dirProbe.once.path = <<"/", "d", "/", "x">>
    /\ dirProbe.twice.path = dirProbe.once.path
    /\ dirProbe.backend.query # <<>>
    /\ dirProbe.twice.query # dirProbe.once.query

\* ------------------------------------------------ properties, the cache

\* C20: the cipher cache never holds more instances than the limit.
CacheBounded == Cardinality(DOMAIN encryptorCache) <= CacheLimit


\* C21: a request that was in flight when the clean-up replaced the cache
\* still holds an allocated instance and, when its upload has ended, has
\* written the ciphertext of its body; and no clean-up runs after Close.
CleanupKeepsTransfers ==
    /\ ~cleaner.late
    /\ \A s \in Slots :
          LET r == slots[s]
          IN  r.swapped /\ r.kind = "put" =>
                 /\ r.enc \in 1..Len(heap)
                 /\ r.pc = "done" => r.pipe = Ciphertext(r.plain)

\* ------------------------------------------ properties, cipher failures

\* The request of a slot is one the proxy needs a cipher for: a PUT with a
\* body that passes the gate, a GET answered 200 or 206 that passes it.
NeedsCipher(r) ==
    \/ r.kind = "put" /\ r.size > 0 /\ UploadEncrypts(r.path, r.ct)
    \/ r.kind = "get" /\ r.upStatus \in {200, 206}
                      /\ DownloadDecrypts(r.path, r.upCT)

CipherFailureFallback ==
    \A s \in Slots :
       LET r == slots[s]
       IN  r.pc # "idle" /\ NeedsCipher(r) /\ NewEncryptorErr(algorithm) # ""
           =>
           /\ r.pc = "done"
           /\ r.logged # ""
           /\ r.err = ""
           /\ r.kind = "put" =>
                 /\ r.pipe = Plain(r.path, r.size)
                 /\ r.sent = r.size
                 /\ r.status = 201
           /\ r.kind = "get" =>
                 /\ r.out = r.upBody
                 /\ r.status = r.upStatus
                 /\ r.hdrCL = r.upCL
                 /\ r.hdrCR = r.upCR
                 /\ ~r.hdrAR
                 /\ ~r.decrypting

CipherFailureFallbackWitness ==
    \E s \in Slots :
       /\ slots[s].kind = "get" /\ slots[s].logged # ""
       /\ slots[s].upStatus = 206 /\ slots[s].rng.kind # "none"
       /\ stored[slots[s].path].bytes =
             Plain(slots[s].path, Len(stored[slots[s].path].bytes))
       /\ slots[s].out # <<>>


\* ------------------------------------------- properties, configuration

\* C24: Validate returns an error exactly when the backend URL is empty,
\* or the password is empty, or the algorithm is not mix, rc4 or aesctr, or
\* the chunk size is not positive, or auth is enabled with an empty user
\* or password; it leaves the configuration as it was.
ValidateExactly ==
    probe.kind = "validate" =>
       /\ probe.err # "" <=>
             \/ ~probe.cfg.BackendURL
             \/ ~probe.cfg.Password
             \/ probe.cfg.Algorithm \notin {"mix", "rc4", "aesctr"}
             \/ probe.cfg.ChunkSize <= 0
             \/ /\ probe.cfg.EnableAuth
                /\ (probe.cfg.AuthUser = <<>> \/ probe.cfg.AuthPass = <<>>)
       /\ probe.after = probe.cfg

ValidateExactlyWitness ==
    /\ probe.kind = "validate"
    /\ probe.err = "chunk size must be positive"
    /\ probe.cfg.Algorithm = "rc4"
    /\ probe.cfg.EnableAuth

\* C25: with --debug on the command line the logger is created at level
\* DEBUG, whatever log_level the configuration names.
DebugPriority ==
    probe.kind = "logger" /\ probe.flags.debug =>
       probe.level = "LogLevelDebug"


\* ------------------------------------------------ properties, uploads

\* C26: the request of an encrypted upload goes upstream with the
\* Content-Length of the client request, and the bytes written to the pipe
\* are as many as the bytes read from the client body, after every chunk
\* and at the end, where they are as many as the declared length.
UploadLengthPreserved ==
    \A s \in Slots :
       LET r == slots[s]
       IN  r.kind = "put" /\ r.objEnc =>
              /\ r.upCL = r.reqCL
              /\ Len(r.pipe) = r.sent
              /\ r.pc = "done" /\ ~r.bodyErr =>
                    /\ Len(r.pipe) = r.size
                    /\ r.reqCL # -1 => Len(r.pipe) = r.upCL

UploadLengthPreservedWitness ==
    \E s, t \in Slots :
       /\ slots[s].kind = "put" /\ slots[s].objEnc
       /\ slots[s].pc = "done" /\ slots[s].size = MaxN
       /\ stored[slots[s].path].bytes = slots[s].pipe
       /\ slots[t].kind = "put" /\ slots[t].objEnc
       /\ slots[t].pc = "upload" /\ slots[t].sent = 1



\* C28: when reading the client body fails part-way through an encrypted
\* PUT, the producer stops and the pipe is closed (the request has ended
\* and nothing more of the body was read), and the request fails: it does
\* not end with the status of a stored upload.
UploadBodyFailureFatal ==
    \A s \in Slots :
       LET r == slots[s]
       IN  r.kind = "put" /\ r.bodyErr =>
              /\ r.pc = "done"
              /\ r.sent < r.size
              /\ Len(r.pipe) = r.sent
              /\ r.status = 502
              /\ r.err # ""


\* ------------------------------------- properties, rc4 over a stream

\* C29: after EncryptData or DecryptData of a buffer the position of an
\* rc4 instance is its position before the call plus the length of the
\* buffer, so an instance that has processed a stream from 0 in calls of
\* any lengths stands at the number of bytes it has processed.
CursorAdvance ==
    algorithm = "rc4" => cipB.position = fed

\* C30: while an rc4 instance processes a stream from position 0 through
\* any sequence of calls, the KSA is re-run exactly at the multiples g*S of
\* the segment size, with the offset g*S mixed into the last four bytes
\* of the file key and i = j = 0: after p bytes its state is that of the
\* KSA of the segment of p followed by p mod S steps of the PRGA.
SegmentRekeying ==
    algorithm = "rc4" /\ probe.kind = "none" =>
       LET r == ResetKSA(fed, cipB.size)
           st == prgaExecPosition(r.sbox, r.i, r.j, fed % SEGMENT_POSITION)
       IN  /\ cipB.sbox = st.sbox
           /\ cipB.i = st.i
           /\ cipB.j = st.j

\* --------------------------------------------- properties, downloads

\* C27: a response whose Content-Range cannot be parsed is handled as the
\* whole object of the size Content-Length names: the cipher is the one of
\* that size, the range starts at 0 and ends at the size minus one, and
\* the Content-Length returned is that size.
UnparseableContentRange ==
    \A s \in Slots :
       LET r == slots[s]
       IN  r.kind = "get" /\ r.decrypting /\ r.upCR.kind \in MalformedKinds
           =>
           /\ heap[r.enc].size = r.upCL
           /\ r.startPos = 0
           /\ r.endPos = r.upCL - 1
           /\ r.hdrCL = r.upCL

\* ------------------------------------ properties, the decrypting reader

\* The number of bytes of the range startPos..endPos of a reader.
RangeLength(r) == IF r.endPos >= r.startPos THEN r.endPos - r.startPos + 1
                  ELSE 0

\* C32: over any sequence of Read calls the decrypting reader delivers
\* the source bytes in source order (one byte out for each byte taken, at
\* consecutive positions from startPos), it never delivers more than
\* endPos - startPos + 1 bytes, its position never passes endPos + 1 once
\* it has delivered something, and a reader that has delivered its range
\* delivers nothing more.
ReaderCapAndOrder ==
    /\ [](\A s \in Slots :
            LET r == slots[s]
            IN  r.kind = "get" /\ r.decrypting
                =>
                /\ Len(r.out) = r.srcPos
                /\ r.position = r.startPos + Len(r.out)
                /\ Len(r.out) <= RangeLength(r)
                /\ Len(r.out) > 0 => r.position <= r.endPos + 1)
    /\ [][\A s \in Slots :
            LET r == slots[s]
            IN  r.kind = "get" /\ r.decrypting /\ r.pc = "read"
                   /\ Len(r.out) >= RangeLength(r)
                => slots'[s].out = r.out]_vars

\* C33: a reader whose source supplies at least endPos - startPos + 1
\* bytes has delivered exactly that many bytes when it reports EOF, however
\* the source split them, and that number is the Content-Length returned.
ReaderCompleteness ==
    \A s \in Slots :
       LET r == slots[s]
       IN  r.kind = "get" /\ r.decrypting /\ r.pc = "done"
              /\ r.endPos >= r.startPos
              /\ Len(r.src) >= RangeLength(r)
           =>
           /\ Len(r.out) = RangeLength(r)
           /\ Len(r.out) = r.hdrCL

\* ------------------------------------------- properties, isolation

\* What a transfer has produced so far is what it produces alone with a
\* cipher constructed for it: an upload has written the ciphertext of the
\* body read so far, a download of an object stored as its ciphertext has
\* delivered the plaintext from its start position on.
AsAlone(r) ==
    /\ (r.kind = "put" /\ r.objEnc) =>
          r.pipe = SubSeq(Ciphertext(r.plain), 1, r.sent)
    /\ (r.kind = "get" /\ r.decrypting /\ r.objBytes = Ciphertext(r.plain)
           /\ r.startPos < Len(r.objBytes)
           /\ r.src = SubSeq(r.objBytes, r.startPos + 1, Len(r.objBytes))) =>
          r.out = SubSeq(r.plain, r.startPos + 1, r.startPos + Len(r.out))

\* C34: two transfers of objects of the same size that run at the same
\* time each produce what they would produce alone with a fresh cipher,
\* under every interleaving of their chunks.
ConcurrentIsolation ==
    \A s, t \in Slots :
       (/\ s # t
        /\ HoldsCipher(slots[s]) /\ HoldsCipher(slots[t])
        /\ heap[slots[s].enc].size = heap[slots[t].enc].size)
       => AsAlone(slots[s]) /\ AsAlone(slots[t])

\* C35: with the requests served one after another, what a Read of a
\* download delivers is what a cipher constructed anew for the same size
\* and set to the reader's position delivers for the same source bytes,
\* whatever earlier requests did with the cached instance.
DownloadIndependence ==
    [][\A s \in Slots :
          LET r == slots[s]
              q == slots'[s]
          IN  (/\ ~overlapped
               /\ r.kind = "get" /\ r.pc = "read" /\ q.srcPos > r.srcPos)
              =>
              q.out = r.out \o
                 DecryptData(SetPosition(NewFlowEnc(seed, algorithm,
                                                    heap[r.enc].size),
                                         r.position),
                             SubSeq(r.src, r.srcPos + 1, q.srcPos)).out]_vars

\* A download of an object whose upload went through the same cached
\* instance has delivered the plaintext, two bytes or more, and the cached
\* instance is not in the state of a new one.
DownloadIndependenceWitness ==
    \E s \in Slots :
       LET r == slots[s]
       IN  /\ ~overlapped
           /\ r.kind = "get" /\ r.decrypting /\ r.objEnc
           /\ heap[r.enc].size = Len(r.objBytes)
           /\ Len(r.out) > 1
           /\ r.out = r.plain
           /\ heap[r.enc] # NewFlowEnc(seed, algorithm, heap[r.enc].size)

\* ------------------------------------------ properties, redirect hops

\* C36: every request sent while a redirect chain is followed, the first
\* follow-up and each later hop, whose target URL has a query string
\* carries no Authorization header.
QueryHopsCarryNoAuthorization ==
    probe.kind = "chain" =>
       \A k \in 1..Len(probe.sent) :
          probe.sent[k].query => ~probe.sent[k].auth

\* ------------------------- properties, a Range answered with the whole

\* C37: a GET with Range: bytes=a-b or bytes=a- that upstream answers with
\* 200, the whole object of N bytes and no Content-Range is answered with
\* 206, Content-Range: bytes a-b/N (b = N - 1 when the Range names none)
\* and, once the body has ended, plaintext bytes a..b of the object.
WholeAnswerToRange ==
    \A s \in Slots :
       LET r == slots[s]
           n == Len(r.plain)
       IN  (/\ ~overlapped
            /\ r.kind = "get" /\ r.rng.kind # "none" /\ RangeValid(r.rng, n)
            /\ r.upStatus = 200 /\ r.upCR = NoCR
            /\ r.objEnc /\ r.objBytes = Ciphertext(r.plain)
            /\ r.upBody = r.objBytes)
           =>
           /\ r.status = 206
           /\ r.hdrCR = CR(r.rng.start, RangeEnd(r.rng, n), n)
           /\ r.pc = "done" =>
                 r.out = SubSeq(r.plain, r.rng.start + 1,
                                RangeEnd(r.rng, n) + 1)

\* ------------------------------------------------ properties, the gates

\* C38 as stated: for every path, Content-Type of the upload, and
\* Content-Type and Content-Disposition of the answer to the GET, the
\* download gate decrypts exactly the objects the upload gate encrypted.
GateSymmetry ==
    probe.kind = "gate" => (probe.up <=> probe.down)

\* C38, amended: for a path with a known file extension both gates apply
\* the cipher whatever the headers are.  For any path, an object the upload
\* gate encrypted is decrypted when the answer's Content-Type is a file
\* type like the upload's, and the two gates agree when the two
\* Content-Types are both file types or both listed non-file types and
\* Content-Disposition does not contain "attachment".
GateAgreement ==
    probe.kind = "gate" =>
       /\ hasFileExtension(probe.path) => probe.up /\ probe.down
       /\ (isFileContentType(probe.upType)
              = isFileContentType(probe.downType)) =>
             /\ probe.up => probe.down
             /\ ~ContainsAttachment(probe.disposition) =>
                   (probe.up <=> probe.down)

\* An upload to a path without extension that was forwarded as it was, with
\* a non-file Content-Type, and an answer with another non-file
\* Content-Type and no attachment that is returned as it is.
GateAgreementWitness ==
    /\ probe.kind = "gate"
    /\ ~hasFileExtension(probe.path)
    /\ probe.upType # probe.downType
    /\ ~isFileContentType(probe.upType) /\ ~isFileContentType(probe.downType)
    /\ ~ContainsAttachment(probe.disposition)
    /\ ~probe.up /\ ~probe.down

\* -------------------------------- properties, front-side credentials

\* C39: the Authorization of every request forwarded upstream is the Basic
\* value of the backend user and password, also when neither is
\* configured, and so it is not the Authorization the client presented to
\* the proxy unless the client's is that very value.
FrontCredentialsStay ==
    front.sent = 1 =>
       /\ front.fwd.auth = BasicValue(cfg.BackendUser, cfg.BackendPass)
       /\ front.in.auth # BasicValue(cfg.BackendUser, cfg.BackendPass) =>
             front.fwd.auth # front.in.auth

\* A client that passed the front-side check with its credentials, forwarded
\* by a proxy without backend user and password: the request sent on has
\* the Basic value of the empty pair and not the client's header.
FrontCredentialsStayWitness ==
    /\ front.sent = 1
    /\ cfg.EnableAuth
    /\ cfg.BackendUser = <<>> /\ cfg.BackendPass = <<>>
    /\ front.in.auth = BasicValue(cfg.AuthUser, cfg.AuthPass)
    /\ front.fwd.auth = BasicValue(<<>>, <<>>)
    /\ front.fwd.auth # front.in.auth

\* ------------------------------------------ properties, the base path

\* A path that is the base path or continues it at a slash.
InsideBase(basePath, path) ==
    \/ path = basePath
    \/ HasPrefix(path, IF HasSuffix(basePath, <<"/">>) THEN basePath
                       ELSE basePath \o <<"/">>)

\* C40: the path of every request the director sends on is inside the
\* base path of the backend URL: the base path itself or a path that
\* continues it at a slash.
PathContainment ==
    dirProbe.n >= 1 => InsideBase(dirProbe.backend.path, dirProbe.once.path)

=============================================================================
